---------------------------- MODULE Spec2Model ----------------------------
(***************************************************************************)
(* A model of the exam-preparation quiz application: the Progress Store    *)
(* (state.js), the sync reconciler (storage.js) and the round state        *)
(* machine (quiz.js, main.js).                                             *)
(*                                                                         *)
(* Time is counted in ticks of 250 ms; the wall clock Date.now() is the    *)
(* variable now.  A document of the remote store is a record holding the   *)
(* eight Progress Store fields, the set has of the fields that are present *)
(* in it, and its timestamp (0 stands for a missing or falsy timestamp).   *)
(* A JavaScript Set is modelled as the duplicate-free sequence of its      *)
(* elements in insertion order, an object used as a map as a function      *)
(* whose domain is its key set.  The connectivity events of the remote     *)
(* store (.info/connected), which only change the status icon, are left    *)
(* out.                                                                    *)
(***************************************************************************)
EXTENDS Naturals, Integers, Sequences, FiniteSets, TLC

\* ------------------------------------------------------------- bounds
NumQuestions == 2
NumProfiles == 2
MaxTime == 4

\* ---------------------------------------------------- program constants
\* DELAYS.SAVE_DEBOUNCE (500 ms) in ticks of 250 ms
SAVE_DEBOUNCE == 2
\* EXAM_CONFIG.TOTAL_EXAMS
TOTAL_EXAMS == 5

BASE == "base"
REVIEW_WRONG == "reviewWrong"
REVIEW_NOT_SURE == "reviewNotSure"
REVIEW_DONT_KNOW == "reviewDontKnow"
REVIEW_ALL == "reviewAll"
REVIEW_WEAK == "reviewWeak"
ROUND_TYPES ==
  {BASE, REVIEW_WRONG, REVIEW_NOT_SURE, REVIEW_DONT_KNOW, REVIEW_ALL, REVIEW_WEAK}

MODES == {"learning", "exam", "smart"}

\* null, where the other values are numbers (ids, indexes, times)
Null == -1

\* null, where the other values are strings (state.currentMode)
NoMode == "none"

\* SYNC_STATUS, and the status element's text before any status is set
LOADING == "loading"
SYNCING == "syncing"
CONNECTED == "connected"
OFFLINE == "offline"
ERROR == "error"
NoStatus == "none"

QIDs == 1..NumQuestions
Profiles == 1..NumProfiles
Letters == {"A", "B"}

\* state.allQuestionIds after loadQuestions
allQuestionIds == [i \in 1..NumQuestions |-> i]

\* question.correct of every loaded question: question 1 has two correct
\* letters, every other question has the single correct letter A
correctLetters(qid) == IF qid = 1 THEN {"A", "B"} ELSE {"A"}

Fields ==
  {"completedLearning", "completedExam", "history", "wrongCounts", "exams",
   "questionMeta", "spacedRepetition", "examHistory"}

VARIABLES
  \* Progress Store (persisted)
  completedLearning, completedExam, history, wrongCounts, exams,
  questionMeta, spacedRepetition, examHistory,
  \* sync state of state.js
  syncId, isSaving, lastCloudTimestamp,
  \* storage.js: module state, the debounce timer, the browser's localStorage
  db, dataRef, listeners, timeoutId, storedSyncId, onDataChangeCallback,
  \* environment: the clock, the SDK, the remote store, requests in flight
  now, sdk, remote, pendingSet, pendingOnce,
  \* main.js: where resetSyncProfile() stands; the sync status icon
  flow, syncStatus,
  \* mode and round state of state.js
  currentMode, selectedExamIndex, currentRoundType, stack, currentIndex,
  questionState, answerOrder, questionStartTime,
  \* the snapshot of the last base round (state.js), the panel that is
  \* shown (ui.js), and whether the exam countdown runs (timerInterval)
  baseState, baseStack, panel, timerInterval,
  \* the intervals the page has set with setInterval(updateExamTimer, 1000)
  \* and not cleared: the browser calls updateExamTimer for each of them
  intervals

storeVars ==
  <<completedLearning, completedExam, history, wrongCounts, exams,
    questionMeta, spacedRepetition, examHistory>>

syncVars ==
  <<syncId, isSaving, lastCloudTimestamp, db, dataRef, listeners, timeoutId,
    storedSyncId, onDataChangeCallback, now, sdk, remote, pendingSet,
    pendingOnce, flow, syncStatus>>

roundVars ==
  <<currentRoundType, stack, currentIndex, questionState, answerOrder,
    questionStartTime>>

modeVars == <<currentMode, selectedExamIndex>>

sessionVars == <<baseState, baseStack, panel, timerInterval, intervals>>

vars == <<storeVars, syncVars, roundVars, modeVars, sessionVars>>

\* ------------------------------------------------------------ helpers
Range(s) == {s[i] : i \in DOMAIN s}

RECURSIVE SetFromArray(_)
\* new Set(array): the elements in order of first occurrence
SetFromArray(arr) ==
  IF arr = << >> THEN << >>
  ELSE LET init == SetFromArray(SubSeq(arr, 1, Len(arr) - 1))
           last == arr[Len(arr)]
       IN  IF last \in Range(init) THEN init ELSE Append(init, last)

\* [...set]
ArrayFromSet(set) == set

\* set.add(x)
SetAdd(set, x) == IF x \in Range(set) THEN set ELSE Append(set, x)

\* the Progress Store as one record (for comparing whole stores)
Store ==
  [completedLearning |-> completedLearning, completedExam |-> completedExam,
   history |-> history, wrongCounts |-> wrongCounts, exams |-> exams,
   questionMeta |-> questionMeta, spacedRepetition |-> spacedRepetition,
   examHistory |-> examHistory]

\* the store of a freshly constructed state object
EmptyStore ==
  [completedLearning |-> << >>, completedExam |-> << >>, history |-> << >>,
   wrongCounts |-> << >>, exams |-> << >>, questionMeta |-> << >>,
   spacedRepetition |-> << >>, examHistory |-> << >>]

\* snapshot.val() of a location that holds nothing
NoDoc ==
  [exists |-> FALSE, timestamp |-> 0, has |-> {},
   completedLearning |-> << >>, completedExam |-> << >>, history |-> << >>,
   wrongCounts |-> << >>, exams |-> << >>, questionMeta |-> << >>,
   spacedRepetition |-> << >>, examHistory |-> << >>]

\* a document: the fields of s that are in has, the others missing
MakeDoc(ts, has, s) ==
  [exists |-> TRUE, timestamp |-> ts, has |-> has,
   completedLearning |->
     IF "completedLearning" \in has THEN s.completedLearning ELSE << >>,
   completedExam |-> IF "completedExam" \in has THEN s.completedExam ELSE << >>,
   history |-> IF "history" \in has THEN s.history ELSE << >>,
   wrongCounts |-> IF "wrongCounts" \in has THEN s.wrongCounts ELSE << >>,
   exams |-> IF "exams" \in has THEN s.exams ELSE << >>,
   questionMeta |-> IF "questionMeta" \in has THEN s.questionMeta ELSE << >>,
   spacedRepetition |->
     IF "spacedRepetition" \in has THEN s.spacedRepetition ELSE << >>,
   examHistory |-> IF "examHistory" \in has THEN s.examHistory ELSE << >>]

\* ------------------------------------------------- state.js: persistence
\* getAllData(): every field present, stamped with Date.now()
getAllData == MakeDoc(now, Fields, Store)

\* the store a document describes when every field of it is taken
StoreOfDoc(data) ==
  [completedLearning |-> SetFromArray(data.completedLearning),
   completedExam |-> SetFromArray(data.completedExam),
   history |-> data.history, wrongCounts |-> data.wrongCounts,
   exams |-> data.exams, questionMeta |-> data.questionMeta,
   spacedRepetition |-> data.spacedRepetition,
   examHistory |-> data.examHistory]

\* if (data.completedLearning) state.completedLearning = new Set(...)
ApplySetField(present, value, cur) ==
  IF present THEN SetFromArray(value) ELSE cur

\* if (data.history) state.history = data.history   (an empty array or
\* object is truthy)
ApplyField(present, value, cur) == IF present THEN value ELSE cur

\* if (data.exams?.length) state.exams = data.exams
ApplyExams(present, value, cur) ==
  IF present /\ Len(value) > 0 THEN value ELSE cur

\* state.lastCloudTimestamp = data.timestamp || 0
ApplyTimestamp(data) == data.timestamp

applyData(data) ==
  IF ~data.exists
  THEN UNCHANGED <<storeVars, lastCloudTimestamp>>
  ELSE /\ completedLearning' =
            ApplySetField("completedLearning" \in data.has,
                          data.completedLearning, completedLearning)
       /\ completedExam' =
            ApplySetField("completedExam" \in data.has, data.completedExam,
                          completedExam)
       /\ history' = ApplyField("history" \in data.has, data.history, history)
       /\ wrongCounts' =
            ApplyField("wrongCounts" \in data.has, data.wrongCounts,
                       wrongCounts)
       /\ exams' = ApplyExams("exams" \in data.has, data.exams, exams)
       /\ questionMeta' =
            ApplyField("questionMeta" \in data.has, data.questionMeta,
                       questionMeta)
       /\ spacedRepetition' =
            ApplyField("spacedRepetition" \in data.has, data.spacedRepetition,
                       spacedRepetition)
       /\ examHistory' =
            ApplyField("examHistory" \in data.has, data.examHistory,
                       examHistory)
       /\ lastCloudTimestamp' = ApplyTimestamp(data)

\* resetAllData()
resetAllData ==
  /\ history' = << >>
  /\ wrongCounts' = << >>
  /\ completedLearning' = << >>
  /\ completedExam' = << >>
  /\ exams' = << >>
  /\ currentMode' = NoMode
  /\ selectedExamIndex' = Null
  /\ questionMeta' = << >>
  /\ spacedRepetition' = << >>
  /\ examHistory' = << >>

\* ------------------------------------------------------- utils.js, quiz.js
\* a slip: a throttle, which leaves a pending timer as it is
throttledSave ==
  timeoutId' = IF timeoutId # Null THEN timeoutId ELSE now + SAVE_DEBOUNCE

\* the debounced function: clearTimeout(timeoutId); timeoutId = setTimeout(..)
debouncedSave == timeoutId' = now + SAVE_DEBOUNCE

\* saveAll()
saveAll == debouncedSave

Min(a, b) == IF a < b THEN a ELSE b

\* Math.ceil(n / d)
CeilDiv(n, d) == (n + d - 1) \div d

\* a slip: the element at hi is taken too
SliceInclusive(arr, lo, hi) == SubSeq(arr, lo + 1, Min(hi + 1, Len(arr)))

\* array.slice(lo, hi)
Slice(arr, lo, hi) == SubSeq(arr, lo + 1, Min(hi, Len(arr)))

\* the results shuffle(array) can return
Shuffles(arr) ==
  {[i \in 1..Len(arr) |-> arr[pi[i]]] : pi \in Permutations(1..Len(arr))}

\* generateExams, given the shuffled ids
ExamsOf(shuffled) ==
  LET size == CeilDiv(Len(shuffled), TOTAL_EXAMS)
  IN  [i \in 1..TOTAL_EXAMS |-> Slice(shuffled, (i - 1) * size, i * size)]

generateExams(ids) == {ExamsOf(sh) : sh \in Shuffles(ids)}

\* ------------------------------------------- state.js, quiz.js: rounds
\* no answer selected (null)
NoAnswer == "null"

\* getCurrentQuestionId(): state.stack[state.currentIndex], Null if undefined
getCurrentQuestionId ==
  IF currentIndex + 1 \in DOMAIN stack THEN stack[currentIndex + 1] ELSE Null

\* getQuestionState(qid) is defined
HasState(qid) == qid \in DOMAIN questionState

\* existing?.status is set and is not 'unanswered'
Answered(qid) == HasState(qid) /\ questionState[qid].status # "unanswered"

\* a slip: no mode is taken for the learning mode
neverLearningMode == FALSE

\* isLearningMode()
isLearningMode == currentMode = "learning"

\* a slip: the question before the last one counts as the last
isLastQuestionEarly == currentIndex >= Len(stack) - 2

\* isLastQuestion()
isLastQuestion == currentIndex >= Len(stack) - 1

\* the seconds of a tick count, as Math.round((Date.now() - startTime) / 1000)
TicksPerSecond == 4

\* getQuestionElapsed()
getQuestionElapsed ==
  IF questionStartTime = Null THEN 0
  ELSE (2 * (now - questionStartTime) + TicksPerSecond) \div (2 * TicksPerSecond)

\* updateQuestionState(qid, updates), updates holding every key
updateQuestionState(qid, updates) ==
  questionState' = (qid :> updates) @@ questionState

\* a slip: the map of wrong counts is replaced by one that holds the raised
\* count only
incrementOnlyCount(qid) ==
  wrongCounts' =
    (qid :> (IF qid \in DOMAIN wrongCounts THEN wrongCounts[qid] ELSE 0) + 1)

\* incrementWrongCount(qid)
incrementWrongCount(qid) ==
  wrongCounts' =
    (qid :> (IF qid \in DOMAIN wrongCounts THEN wrongCounts[qid] ELSE 0) + 1)
      @@ wrongCounts

\* a slip: the new round keeps the draft state and the answer orders
initStackKeepingDrafts(questionIds) ==
  /\ stack' = questionIds
  /\ currentIndex' = 0
  /\ UNCHANGED <<questionState, answerOrder>>

\* initStack(questionIds)
initStack(questionIds) ==
  /\ stack' = questionIds
  /\ currentIndex' = 0
  /\ questionState' = << >>
  /\ answerOrder' = << >>

\* resetQuestionTimer()
resetQuestionTimer == questionStartTime' = now

\* a slip: startRound() starts a round whatever it is given
startRoundAlways(questionIds) == TRUE

\* what startRound(roundType, questionIds) returns
startRoundResult(questionIds) == Len(questionIds) > 0

\* a reference that is null or holds an object: << >> is null, <<x>> is x
NullRef == << >>

Ref(x) == <<x>>

Deref(r) == r[1]

\* ------------------------------------------------------------ Init
NoWrite == [ref |-> Null, data |-> NoDoc]

\* the in-memory state of a freshly loaded page (questions loaded)
FreshPage ==
  /\ completedLearning = << >> /\ completedExam = << >> /\ history = << >>
  /\ wrongCounts = << >> /\ exams = << >> /\ questionMeta = << >>
  /\ spacedRepetition = << >> /\ examHistory = << >>
  /\ syncId = Null /\ isSaving = FALSE /\ lastCloudTimestamp = 0
  /\ db = FALSE /\ dataRef = Null /\ listeners = {} /\ timeoutId = Null
  /\ onDataChangeCallback = FALSE
  /\ pendingSet = NoWrite /\ pendingOnce = {}
  /\ flow = "idle"
  /\ currentMode = NoMode /\ selectedExamIndex = Null
  /\ currentRoundType = BASE /\ stack = << >> /\ currentIndex = 0
  /\ questionState = << >> /\ answerOrder = << >>
  /\ questionStartTime = Null
  /\ baseState = NullRef /\ baseStack = NullRef
  /\ panel = "setup" /\ timerInterval = FALSE /\ intervals = 0

Init ==
  /\ FreshPage
  /\ storedSyncId = Null
  /\ now = 1
  /\ sdk \in BOOLEAN
  /\ remote = [p \in Profiles |-> NoDoc]
  /\ syncStatus = NoStatus

\* ------------------------------------------------------ storage.js
\* generateSyncId(): a random id, which no profile uses yet
GeneratedIds == {p \in Profiles : ~remote[p].exists /\ p # syncId}

\* a slip: the guard on the data reference is inverted
saveToCloudInverted(ref, data) ==
  IF ref # Null \/ isSaving
  THEN UNCHANGED <<isSaving, pendingSet, syncStatus>>
  ELSE /\ isSaving' = TRUE
       /\ syncStatus' = SYNCING
       /\ pendingSet' = [ref |-> ref, data |-> data]

\* saveToCloud() up to its await, writing data to ref
saveToCloud(ref, data) ==
  IF ref = Null \/ isSaving
  THEN UNCHANGED <<isSaving, pendingSet, syncStatus>>
  ELSE /\ isSaving' = TRUE
       /\ syncStatus' = SYNCING
       /\ pendingSet' = [ref |-> ref, data |-> data]

\* a slip in the comparison: a document as old as the last one is applied
IsNewerOrEqual(ts, last) == ts # 0 /\ ts >= last

\* data.timestamp && data.timestamp > getLastCloudTimestamp()
IsNewer(ts, last) == ts # 0 /\ ts > last

\* a slip: the re-entrancy guard is missing
NeverIgnore(saving) == FALSE

\* if (isSaving()) return;
IgnoreOwnSave(saving) == saving

\* onCloudDataChange(snapshot), data = snapshot.val()
onCloudDataChange(data) ==
  IF IgnoreOwnSave(isSaving) \/ ~data.exists
  THEN UNCHANGED <<storeVars, lastCloudTimestamp>>
  ELSE IF IsNewer(data.timestamp, lastCloudTimestamp)
       THEN applyData(data)
       ELSE UNCHANGED <<storeVars, lastCloudTimestamp>>

\* a slip: an inbound document puts the round back to its first question
\* and drops the states of its questions
applyDataRestarts ==
  /\ currentIndex' = 0
  /\ questionState' = << >>
  /\ UNCHANGED <<currentRoundType, stack, answerOrder, questionStartTime,
                 sessionVars>>

\* applyData(data) and the callback of main.js assign no field of the round
\* and of the session
applyDataKeeps == UNCHANGED <<roundVars, sessionVars>>

\* the remote store notifies the listener registered on users/p
Notify(p) ==
  /\ p \in listeners
  /\ onCloudDataChange(remote[p])
  /\ applyDataKeeps
  /\ UNCHANGED <<syncStatus, syncId, isSaving, db, dataRef, listeners, timeoutId,
                 storedSyncId, onDataChangeCallback, now, sdk, remote,
                 pendingSet, pendingOnce, flow, modeVars>>

\* initFirebase(onDataChange) up to its await
InitFirebase ==
  /\ ~onDataChangeCallback
  /\ onDataChangeCallback' = TRUE
  /\ IF ~sdk
     THEN /\ syncStatus' = ERROR
          /\ UNCHANGED <<db, syncId, storedSyncId, dataRef, listeners,
                         pendingOnce>>
     ELSE \E id \in (IF storedSyncId # Null THEN {storedSyncId}
                                            ELSE GeneratedIds) :
            /\ db' = TRUE
            /\ syncId' = id
            /\ storedSyncId' = id
            /\ dataRef' = id
            /\ listeners' = listeners \cup {id}
            /\ pendingOnce' = pendingOnce \cup {[op |-> "init", ref |-> id]}
            /\ syncStatus' = LOADING
  /\ UNCHANGED <<storeVars, isSaving, lastCloudTimestamp, timeoutId, now, sdk,
                 remote, pendingSet, flow, roundVars, modeVars, sessionVars>>

\* connectToSyncId(newSyncId) up to its await
ConnectToSyncId(newSyncId) ==
  /\ IF newSyncId = Null \/ ~db
     THEN UNCHANGED <<syncId, storedSyncId, dataRef, listeners, pendingOnce>>
     ELSE /\ syncId' = newSyncId
          /\ storedSyncId' = newSyncId
          /\ dataRef' = newSyncId
          /\ listeners' = (listeners \ {dataRef}) \cup {newSyncId}
          /\ pendingOnce' =
               pendingOnce \cup {[op |-> "connect", ref |-> newSyncId]}
  /\ UNCHANGED <<syncStatus, storeVars, isSaving, lastCloudTimestamp, db, timeoutId,
                 onDataChangeCallback, now, sdk, remote, pendingSet, flow,
                 roundVars, modeVars, sessionVars>>

\* await dataRef.once('value') resolves with the snapshot of users/r.ref
OnceResolve(r) ==
  /\ r \in pendingOnce
  /\ pendingOnce' = pendingOnce \ {r}
  /\ LET snapshot == remote[r.ref] IN
       IF snapshot.exists
       THEN /\ applyData(snapshot)
            /\ UNCHANGED <<isSaving, pendingSet, syncStatus>>
       ELSE /\ UNCHANGED <<storeVars, lastCloudTimestamp>>
            /\ IF r.op = "connect"
               THEN UNCHANGED <<isSaving, pendingSet, syncStatus>>
               ELSE saveToCloud(dataRef, getAllData)
  /\ applyDataKeeps
  /\ UNCHANGED <<syncId, db, dataRef, listeners, timeoutId, storedSyncId,
                 onDataChangeCallback, now, sdk, remote, flow, modeVars>>

\* await dataRef.once('value') rejects: the catch block
OnceReject(r) ==
  /\ r \in pendingOnce
  /\ pendingOnce' = pendingOnce \ {r}
  /\ syncStatus' = IF r.op = "connect" THEN syncStatus ELSE ERROR
  /\ UNCHANGED <<storeVars, syncId, isSaving, lastCloudTimestamp, db, dataRef,
                 listeners, timeoutId, storedSyncId, onDataChangeCallback, now,
                 sdk, remote, pendingSet, flow, roundVars, modeVars, sessionVars>>

\* the debounce timer fires: saveToCloud() up to its await
TimerFire ==
  /\ timeoutId # Null
  /\ now >= timeoutId
  /\ timeoutId' = Null
  /\ saveToCloud(dataRef, getAllData)
  /\ UNCHANGED <<storeVars, syncId, lastCloudTimestamp, db, dataRef, listeners,
                 storedSyncId, onDataChangeCallback, now, sdk, remote,
                 pendingOnce, flow, roundVars, modeVars, sessionVars>>

\* resetSyncProfile() continues after await storage.createNewProfile()
AfterCreate(f) == IF f = "awaitCreate" THEN "reloading" ELSE f

\* await dataRef.set(data) resolves: the rest of the try block, and finally
SetResolve ==
  /\ pendingSet.ref # Null
  /\ remote' = [remote EXCEPT ![pendingSet.ref] = pendingSet.data]
  /\ lastCloudTimestamp' = pendingSet.data.timestamp
  /\ isSaving' = FALSE
  /\ pendingSet' = NoWrite
  /\ flow' = AfterCreate(flow)
  /\ syncStatus' = CONNECTED
  /\ UNCHANGED <<storeVars, syncId, db, dataRef, listeners, timeoutId,
                 storedSyncId, onDataChangeCallback, now, sdk, pendingOnce,
                 roundVars, modeVars, sessionVars>>

\* a slip: setSaving(false) only at the end of the try block, no finally
KeepSaving == TRUE

\* setSaving(false) of the finally block
ReleaseSaving == FALSE

\* await dataRef.set(data) rejects: the catch block, and finally
SetReject ==
  /\ pendingSet.ref # Null
  /\ isSaving' = ReleaseSaving
  /\ pendingSet' = NoWrite
  /\ flow' = AfterCreate(flow)
  /\ syncStatus' = ERROR
  /\ UNCHANGED <<storeVars, syncId, lastCloudTimestamp, db, dataRef, listeners,
                 timeoutId, storedSyncId, onDataChangeCallback, now, sdk,
                 remote, pendingOnce, roundVars, modeVars, sessionVars>>

\* ------------------------------------------------------------ main.js
\* resetSyncProfile(): resetAllData(), then createNewProfile() up to the
\* await of its saveToCloud(); db.ref(..) raises when db is null
ResetSyncProfile ==
  /\ flow \in {"idle", "aborted"}
  /\ resetAllData
  /\ \E newSyncId \in GeneratedIds :
       /\ syncId' = newSyncId
       /\ storedSyncId' = newSyncId
       /\ IF ~db
          THEN /\ flow' = "aborted"
               /\ listeners' = listeners \ {dataRef}
               /\ UNCHANGED <<dataRef, isSaving, pendingSet, syncStatus>>
          ELSE /\ dataRef' = newSyncId
               /\ listeners' = (listeners \ {dataRef}) \cup {newSyncId}
               /\ saveToCloud(newSyncId, MakeDoc(now, Fields, EmptyStore))
               /\ flow' = IF isSaving THEN "reloading" ELSE "awaitCreate"
  /\ UNCHANGED <<lastCloudTimestamp, db, timeoutId, onDataChangeCallback, now,
                 sdk, remote, pendingOnce, roundVars, sessionVars>>

\* location.reload() at the end of resetSyncProfile(): a fresh page, which
\* keeps only localStorage
ReloadPage ==
  /\ flow = "reloading"
  /\ completedLearning' = << >> /\ completedExam' = << >> /\ history' = << >>
  /\ wrongCounts' = << >> /\ exams' = << >> /\ questionMeta' = << >>
  /\ spacedRepetition' = << >> /\ examHistory' = << >>
  /\ syncId' = Null /\ isSaving' = FALSE /\ lastCloudTimestamp' = 0
  /\ db' = FALSE /\ dataRef' = Null /\ listeners' = {} /\ timeoutId' = Null
  /\ onDataChangeCallback' = FALSE
  /\ pendingSet' = NoWrite /\ pendingOnce' = {}
  /\ flow' = "idle"
  /\ currentMode' = NoMode /\ selectedExamIndex' = Null
  /\ currentRoundType' = BASE /\ stack' = << >> /\ currentIndex' = 0
  /\ questionState' = << >> /\ answerOrder' = << >>
  /\ questionStartTime' = Null
  /\ baseState' = NullRef /\ baseStack' = NullRef
  /\ panel' = "setup" /\ timerInterval' = FALSE /\ intervals' = 0
  /\ syncStatus' = NoStatus
  /\ UNCHANGED <<storedSyncId, now, sdk, remote>>

\* what no handler of the Progress Store touches in storage.js
localFrame ==
  <<syncId, isSaving, lastCloudTimestamp, db, dataRef, listeners,
    storedSyncId, onDataChangeCallback, now, sdk, remote, pendingSet,
    pendingOnce, flow, syncStatus, roundVars, sessionVars>>

\* selectMode(mode), with loadOrGenerateExams()
SelectMode(mode) ==
  /\ currentMode' = mode
  /\ IF mode # "smart" /\ (Len(exams) = 0 \/ Len(exams[1]) = 0)
     THEN /\ exams' \in generateExams(allQuestionIds)
          /\ saveAll
     ELSE UNCHANGED <<exams, timeoutId>>
  /\ UNCHANGED <<completedLearning, completedExam, history, wrongCounts,
                 questionMeta, spacedRepetition, examHistory,
                 selectedExamIndex, localFrame>>

\* reshuffleExams()
ReshuffleExams ==
  /\ currentMode \in {"learning", "exam"}
  /\ exams' \in generateExams(allQuestionIds)
  /\ completedLearning' = << >>
  /\ completedExam' = << >>
  /\ saveAll
  /\ UNCHANGED <<history, wrongCounts, questionMeta, spacedRepetition,
                 examHistory, modeVars, localFrame>>

\* clearStats() of main.js: state.clearStats(), saveAll()
ClearStats ==
  /\ history' = << >>
  /\ wrongCounts' = << >>
  /\ saveAll
  /\ UNCHANGED <<completedLearning, completedExam, exams, questionMeta,
                 spacedRepetition, examHistory, modeVars, localFrame>>

\* resetAll() of main.js: state.resetAllData(), saveAll()
ResetAll ==
  /\ resetAllData
  /\ saveAll
  /\ UNCHANGED localFrame

\* ------------------------------------------------------------ quiz.js
\* what the handlers of a round leave alone
roundFrame ==
  <<completedLearning, completedExam, history, exams, questionMeta,
    spacedRepetition, examHistory, syncVars, modeVars>>

\* what finishExam() of main.js may change
finishVars ==
  <<completedLearning, completedExam, history, spacedRepetition, examHistory,
    timeoutId, baseState, baseStack, panel, timerInterval, intervals>>

\* what no handler of a round changes, finishExam() included
finishFrame ==
  <<exams, questionMeta, syncId, isSaving, lastCloudTimestamp, db, dataRef,
    listeners, storedSyncId, onDataChangeCallback, now, sdk, remote,
    pendingSet, pendingOnce, flow, syncStatus, modeVars>>

\* startRound(roundType, questionIds)
StartRound(roundType, questionIds) ==
  /\ IF ~startRoundResult(questionIds)
     THEN UNCHANGED roundVars
     ELSE /\ currentRoundType' = roundType
          /\ initStack(questionIds)
          /\ resetQuestionTimer
  /\ UNCHANGED <<wrongCounts, roundFrame, sessionVars>>

\* ensureAnswerOrder(qid)
ensureAnswerOrder(qid) ==
  IF qid = Null \/ qid \in DOMAIN answerOrder
  THEN UNCHANGED answerOrder
  ELSE \E shuffled \in Shuffles(<<"A", "B">>) :
         answerOrder' = (qid :> shuffled) @@ answerOrder

\* the question the exam panel shows has been rendered
Rendered == getCurrentQuestionId \in DOMAIN answerOrder

\* a slip: the handle is dropped and its interval is left running
keepInterval == intervals

\* clearInterval(interval), for the handle state.timerInterval holds
clearInterval == intervals - 1

\* stopExamTimer()
stopExamTimer ==
  /\ intervals' = (IF timerInterval THEN clearInterval ELSE intervals)
  /\ timerInterval' = FALSE

\* startExamTimer(onExpired): stopExamTimer(), and then, except in learning
\* mode, setTimerInterval(setInterval(updateExamTimer, 1000))
startExamTimer(mode) ==
  IF mode = "learning" THEN stopExamTimer
  ELSE /\ intervals' = (IF timerInterval THEN clearInterval ELSE intervals) + 1
       /\ timerInterval' = TRUE

\* what startExam(), startReview() and the review handlers of the stats
\* panel do after startRound() has returned true (the stack is set and no
\* question has an answer order yet): showExamUI(),
\* startExamTimer(finishExam), resetQuestionTimer(), renderQuestion()
RenderQuestion ==
  /\ getCurrentQuestionId # Null
  /\ answerOrder = << >>
  /\ panel' = "exam"
  /\ startExamTimer(currentMode)
  /\ resetQuestionTimer
  /\ ensureAnswerOrder(getCurrentQuestionId)
  /\ UNCHANGED <<currentRoundType, stack, currentIndex, questionState,
                 wrongCounts, roundFrame, baseState, baseStack>>

\* updateDraftState(selectedAnswer, dontKnow, notSure)
UpdateDraftState(selectedAnswer, dontKnow, notSure) ==
  LET qid == getCurrentQuestionId IN
  /\ panel = "exam"
  /\ Rendered
  /\ IF qid = Null \/ (isLearningMode /\ Answered(qid))
     THEN UNCHANGED questionState
     ELSE updateQuestionState(qid,
            [selectedAnswer |->
               IF selectedAnswer # NoAnswer THEN selectedAnswer
               ELSE IF HasState(qid) THEN questionState[qid].selectedAnswer
               ELSE NoAnswer,
             status |->
               IF HasState(qid) THEN questionState[qid].status
               ELSE "unanswered",
             dontKnow |-> dontKnow,
             notSure |-> notSure,
             time |-> IF HasState(qid) THEN questionState[qid].time ELSE 0])
  /\ UNCHANGED <<currentRoundType, stack, currentIndex, answerOrder,
                 questionStartTime, wrongCounts, roundFrame, sessionVars>>

\* what checkCurrentQuestion(selectedAnswer) returns
checkResult(selectedAnswer) ==
  selectedAnswer # NoAnswer /\ getCurrentQuestionId # Null

\* a slip: every checked answer is counted as a wrong one
countEveryAnswer(isCorrect) == TRUE

\* if (!isCorrect) incrementWrongCount(qid)
countsAsWrong(isCorrect) == ~isCorrect

\* checkCurrentQuestion(selectedAnswer)
checkCurrentQuestion(selectedAnswer) ==
  LET qid == getCurrentQuestionId
      isCorrect == selectedAnswer \in correctLetters(qid)
  IN  IF ~checkResult(selectedAnswer)
      THEN UNCHANGED <<questionState, wrongCounts>>
      ELSE /\ updateQuestionState(qid,
                [selectedAnswer |-> selectedAnswer,
                 status |-> IF isCorrect THEN "correct" ELSE "wrong",
                 dontKnow |-> HasState(qid) /\ questionState[qid].dontKnow,
                 notSure |-> HasState(qid) /\ questionState[qid].notSure,
                 time |-> getQuestionElapsed])
           /\ IF countsAsWrong(isCorrect) THEN incrementWrongCount(qid)
                                          ELSE UNCHANGED wrongCounts

\* ui.getSelectedAnswer(): the checked answer, which renderQuestion() and
\* the change handlers keep equal to the drafted answer
getSelectedAnswer ==
  IF HasState(getCurrentQuestionId)
  THEN questionState[getCurrentQuestionId].selectedAnswer
  ELSE NoAnswer

\* a slip: the test of the status is inverted
ShowsResultInverted == isLearningMode /\ Answered(getCurrentQuestionId)

\* handleNext() shows the result of the current question and stays on it
ShowsResult == isLearningMode /\ ~Answered(getCurrentQuestionId)

\* handleNext() calls onFinish
FinishesRound(selectedAnswer) ==
  selectedAnswer # NoAnswer /\ ~ShowsResult /\ isLastQuestion

\* handleNext() calls checkCurrentQuestion()
ChecksQuestion(selectedAnswer) ==
  selectedAnswer # NoAnswer /\ (ShowsResult \/ ~isLearningMode)

\* ------------------------------------------- quiz.js: statistics, reviews
\* Math.round(n / d) for n >= 0 and d > 0
RoundDiv(n, d) == (2 * n + d) \div (2 * d)

\* calcPercent(part, total)
calcPercent(part, total) == IF total = 0 THEN 0 ELSE RoundDiv(100 * part, total)

\* EXAM_CONFIG.PASS_THRESHOLD
PASS_THRESHOLD == 72

\* a slip: every question that has a state is counted
CountedAlways(qs, qid) == qid \in DOMAIN qs

\* computeStats() counts the question: it has a state whose status is set
\* and is not 'unanswered'
Counted(qs, qid) == qid \in DOMAIN qs /\ qs[qid].status # "unanswered"

RECURSIVE SumTime(_, _)
\* totalTime of computeStats()
SumTime(qs, ids) ==
  IF ids = << >> THEN 0
  ELSE (IF Counted(qs, Head(ids)) THEN qs[Head(ids)].time ELSE 0)
         + SumTime(qs, Tail(ids))

\* computeStats(questionState, questionIds)
computeStats(qs, ids) ==
  [correct |->
     Cardinality({i \in DOMAIN ids :
                    Counted(qs, ids[i]) /\ qs[ids[i]].status = "correct"}),
   wrong |->
     SelectSeq(ids, LAMBDA q : Counted(qs, q) /\ qs[q].status # "correct"),
   dk |-> SelectSeq(ids, LAMBDA q : Counted(qs, q) /\ qs[q].dontKnow),
   ns |-> SelectSeq(ids, LAMBDA q : Counted(qs, q) /\ qs[q].notSure),
   correctButNotSure |->
     SelectSeq(ids, LAMBDA q : Counted(qs, q) /\ qs[q].status = "correct"
                                 /\ qs[q].notSure),
   totalTime |-> SumTime(qs, ids)]

\* a slip: the three lists are joined without removing duplicates
joinAll(wrong, dk, ns) == wrong \o dk \o ns

\* [...new Set([...stats.wrong, ...stats.dk, ...stats.ns])]
unionAll(wrong, dk, ns) == SetFromArray(wrong \o dk \o ns)

\* getReviewQuestions(baseState, baseStack, reviewType)
getReviewQuestions(bState, bStack, reviewType) ==
  IF bState = NullRef \/ bStack = NullRef THEN << >>
  ELSE LET stats == computeStats(Deref(bState), Deref(bStack)) IN
       CASE reviewType = REVIEW_WRONG -> stats.wrong
         [] reviewType = REVIEW_NOT_SURE -> stats.ns
         [] reviewType = REVIEW_DONT_KNOW -> stats.dk
         [] reviewType = REVIEW_ALL -> unionAll(stats.wrong, stats.dk, stats.ns)
         [] OTHER -> << >>

\* ------------------------------------------------ smart.js: level update
\* SPACED_REP_CONFIG
MAX_LEVEL == 5
CORRECT_SURE == 2
CORRECT_NOT_SURE == 1
WRONG == -2

Max(a, b) == IF a > b THEN a ELSE b

\* getSpacedRepData(qid), on the map sr
getSpacedRepData(sr, qid) ==
  IF qid \in DOMAIN sr THEN sr[qid]
  ELSE [level |-> 0, lastSeen |-> 0, seenCount |-> 0]

\* updateSpacedRepData(qid, data), on the map sr: the fields of data are
\* laid over the stored record
updateSpacedRepData(sr, qid, data) ==
  (qid :> (data @@ getSpacedRepData(sr, qid))) @@ sr

\* a slip: the new level is stored as computed
noClamp(level) == level

\* Math.max(0, Math.min(SPACED_REP_CONFIG.MAX_LEVEL, newLevel))
clampLevel(level) == Max(0, Min(MAX_LEVEL, level))

\* updateSpacedRepLevel(qid, correct, notSure), on the map sr
updateSpacedRepLevel(sr, qid, correct, notSure) ==
  LET data == getSpacedRepData(sr, qid)
      delta == IF correct
               THEN (IF notSure THEN CORRECT_NOT_SURE ELSE CORRECT_SURE)
               ELSE WRONG
      newLevel == clampLevel(data.level + delta)
  IN  updateSpacedRepData(sr, qid,
        [level |-> newLevel, lastSeen |-> now,
         seenCount |-> data.seenCount + 1])

\* markQuestionSeen(qid, position), on the map sr
markQuestionSeen(sr, qid, position) ==
  updateSpacedRepData(sr, qid,
    [lastSeenPosition |-> position] @@ getSpacedRepData(sr, qid))

RECURSIVE updateLevels(_, _, _)
\* s.stack.forEach(qid => ...) of finishExam(): the level of every answered
\* question of the stack is updated, in stack order
updateLevels(sr, qs, ids) ==
  IF ids = << >> THEN sr
  ELSE LET qid == Head(ids) IN
       updateLevels(
         IF Counted(qs, qid)
         THEN updateSpacedRepLevel(sr, qid, qs[qid].status = "correct",
                                   qs[qid].notSure)
         ELSE sr,
         qs, Tail(ids))

\* ---------------------------------------- state.js, main.js: completion
\* the exam history keeps the last 50 records
EXAM_HISTORY_LIMIT == 50

\* a slip: the result of slice() is not assigned
keepAll(all, n) == all

\* state.examHistory.slice(-n)
keepLast(all, n) == SubSeq(all, Len(all) - n + 1, Len(all))

\* addExamHistory(examResult), on the array h
addExamHistory(h, examResult) ==
  LET all == Append(h, examResult) IN
  IF Len(all) > EXAM_HISTORY_LIMIT
  THEN keepLast(all, EXAM_HISTORY_LIMIT)
  ELSE all

\* the record finishExam() of main.js adds for the round (its id, date and
\* duration, which are wall-clock stamps, are left out)
ExamRecord(qs) ==
  LET examStats == computeStats(qs, stack)
      pct == IF Len(stack) > 0 THEN RoundDiv(100 * examStats.correct, Len(stack))
             ELSE 0
  IN  [mode |-> currentMode, examIndex |-> selectedExamIndex,
       total |-> Len(stack), correct |-> examStats.correct, pct |-> pct,
       passed |-> Len(stack) > 0 /\ pct >= PASS_THRESHOLD,
       questions |->
         [i \in DOMAIN stack |->
            [qid |-> stack[i],
             answer |-> IF stack[i] \in DOMAIN qs
                        THEN qs[stack[i]].selectedAnswer ELSE NoAnswer,
             correct |-> stack[i] \in DOMAIN qs
                           /\ qs[stack[i]].status = "correct"]]]

\* the entry finishExam() of quiz.js adds for the round (its date is left
\* out)
HistoryEntry(qs) ==
  LET stats == computeStats(qs, stack)
      total == Len(stack)
  IN  [mode |-> currentMode, total |-> total, correct |-> stats.correct,
       pct |-> calcPercent(stats.correct, total),
       avgTime |-> IF total > 0 THEN RoundDiv(stats.totalTime, total) ELSE 0]

\* a slip: the snapshot is taken once and never replaced
saveBaseStateOnce(qs) ==
  IF baseState = NullRef
  THEN baseState' = Ref(qs) /\ baseStack' = Ref(stack)
  ELSE UNCHANGED <<baseState, baseStack>>

\* saveBaseState(), the live question states being qs
saveBaseState(qs) == baseState' = Ref(qs) /\ baseStack' = Ref(stack)

\* restoreBaseState()
restoreBaseState ==
  IF baseState # NullRef /\ baseStack # NullRef
  THEN questionState' = Deref(baseState) /\ stack' = Deref(baseStack)
  ELSE UNCHANGED <<questionState, stack>>

\* getCompletedExams(), as the name of the set
getCompletedExams ==
  IF currentMode = "exam" THEN "completedExam" ELSE "completedLearning"

\* markExamCompleted()
markExamCompleted ==
  IF selectedExamIndex = Null THEN UNCHANGED <<completedLearning, completedExam>>
  ELSE IF getCompletedExams = "completedExam"
  THEN /\ completedExam' = SetAdd(completedExam, selectedExamIndex)
       /\ UNCHANGED completedLearning
  ELSE /\ completedLearning' = SetAdd(completedLearning, selectedExamIndex)
       /\ UNCHANGED completedExam

\* a slip: every round is recorded
RecordsEveryRound(roundType) == TRUE

\* if (roundType === ROUND_TYPES.BASE)
RecordsRound(roundType) == roundType = BASE

\* finishExam() of main.js, which calls finishExam() of quiz.js, the live
\* question states being qs
finishExam(qs) ==
  /\ stopExamTimer
  /\ spacedRepetition' =
       IF currentMode \in {"smart", "learning"}
       THEN updateLevels(spacedRepetition, qs, stack) ELSE spacedRepetition
  /\ IF RecordsRound(currentRoundType)
     THEN /\ examHistory' = addExamHistory(examHistory, ExamRecord(qs))
          /\ saveBaseState(qs)
          /\ markExamCompleted
          /\ history' = Append(history, HistoryEntry(qs))
          /\ saveAll
     ELSE UNCHANGED <<examHistory, baseState, baseStack, completedLearning,
                      completedExam, history, timeoutId>>
  /\ panel' = "results"

\* the wrong answers counted for one question in a model run
MaxWrong == 1

\* the rounds recorded in the history, and the rounds a question is seen
\* in, in a model run
MaxHistory == 1
MaxSeen == 2

\* the counters finishExam() raises are below their bounds
CanFinish ==
  /\ currentRoundType = BASE =>
       Len(history) < MaxHistory /\ Len(examHistory) < MaxHistory
  /\ currentMode \in {"smart", "learning"} =>
       \A q \in Range(stack) :
         getSpacedRepData(spacedRepetition, q).seenCount < MaxSeen

\* the wrong count checkCurrentQuestion() raises is below limit
CanCountBelow(selectedAnswer, limit) ==
  LET qid == getCurrentQuestionId IN
  (ChecksQuestion(selectedAnswer) /\ qid # Null
     /\ selectedAnswer \notin correctLetters(qid) /\ qid \in DOMAIN wrongCounts)
    => wrongCounts[qid] < limit

\* the wrong count checkCurrentQuestion() raises is below its bound
CanCount(selectedAnswer) == CanCountBelow(selectedAnswer, MaxWrong)

\* handleNext() of main.js: handleNext(finishExam, renderQuestion, selected)
\* of quiz.js, while the wrong count it raises is below limit
handleNextBelow(selectedAnswer, limit) ==
  /\ panel = "exam"
  /\ Rendered
  /\ CanCountBelow(selectedAnswer, limit)
  /\ FinishesRound(selectedAnswer) => CanFinish
  /\ IF selectedAnswer = NoAnswer
     THEN UNCHANGED <<questionState, wrongCounts, currentIndex,
                      questionStartTime, answerOrder, finishVars>>
     ELSE IF ShowsResult
     THEN /\ checkCurrentQuestion(selectedAnswer)
          /\ UNCHANGED <<currentIndex, questionStartTime, answerOrder,
                         finishVars>>
     ELSE /\ IF isLearningMode
             THEN UNCHANGED <<questionState, wrongCounts>>
             ELSE checkCurrentQuestion(selectedAnswer)
          /\ IF ~isLastQuestion
             THEN /\ currentIndex' = currentIndex + 1
                  /\ resetQuestionTimer
                  /\ ensureAnswerOrder(stack[currentIndex + 2])
                  /\ UNCHANGED finishVars
             ELSE /\ finishExam(questionState')
                  /\ UNCHANGED <<currentIndex, questionStartTime, answerOrder>>
  /\ UNCHANGED <<currentRoundType, stack, finishFrame>>

\* handleNext(), in the runs that count one wrong answer for a question
HandleNext(selectedAnswer) == handleNextBelow(selectedAnswer, MaxWrong)

\* a slip: the index is lowered by two
prevQuestionTwice ==
  IF currentIndex > 0 THEN currentIndex' = currentIndex - 2
  ELSE UNCHANGED currentIndex

\* prevQuestion() of state.js, which returns currentIndex > 0
prevQuestion ==
  IF currentIndex > 0 THEN currentIndex' = currentIndex - 1
  ELSE UNCHANGED currentIndex

\* handleBack() of main.js: handleBack(renderQuestion) of quiz.js
HandleBack ==
  /\ panel = "exam"
  /\ Rendered
  /\ prevQuestion
  /\ IF currentIndex > 0
     THEN ensureAnswerOrder(stack[currentIndex])
     ELSE UNCHANGED answerOrder
  /\ UNCHANGED <<currentRoundType, stack, questionState, questionStartTime,
                 wrongCounts, roundFrame, sessionVars>>

\* updateExamTimer() finds no time remaining and calls finishExam(); the
\* 105 minutes of the limit are not counted in ticks: they are over at some
\* moment while the countdown runs
TimeExpired ==
  /\ intervals > 0
  /\ panel = "exam"
  /\ Rendered
  /\ CanFinish
  /\ finishExam(questionState)
  /\ UNCHANGED <<roundVars, wrongCounts, finishFrame>>

\* ------------------------------------------------- main.js: the session
\* startRound(roundType, questionIds) has returned true and its caller goes
\* on: showExamUI(), startExamTimer(finishExam), resetQuestionTimer(),
\* renderQuestion(); mode is the mode the handler has set before
showRound(roundType, questionIds, mode) ==
  /\ currentRoundType' = roundType
  /\ stack' = questionIds
  /\ currentIndex' = 0
  /\ questionState' = << >>
  /\ \E shuffled \in Shuffles(<<"A", "B">>) :
       answerOrder' = (questionIds[1] :> shuffled)
  /\ questionStartTime' = now
  /\ panel' = "exam"
  /\ startExamTimer(mode)

\* setMode(mode) of state.js
SetMode(mode) ==
  /\ panel = "setup"
  /\ currentMode' = mode
  /\ UNCHANGED <<storeVars, syncVars, roundVars, selectedExamIndex,
                 sessionVars>>

\* a click on the button of exam idx, which renderExamButtons() shows in
\* learning and exam mode
SelectExam(idx) ==
  /\ panel = "setup"
  /\ currentMode \in {"learning", "exam"}
  /\ idx \in 0..(Len(exams) - 1)
  /\ selectedExamIndex' = idx
  /\ UNCHANGED <<storeVars, syncVars, roundVars, currentMode, sessionVars>>

\* SPACED_REP_CONFIG.INTERVALS[level] || 50
INTERVALS(level) ==
  CASE level = 0 -> 2 [] level = 1 -> 4 [] level = 2 -> 8 [] level = 3 -> 15
    [] level = 4 -> 25 [] OTHER -> 50

\* a slip: a question never seen is scored as a seen one
priorityAsSeen(qid) ==
  LET data == getSpacedRepData(spacedRepetition, qid) IN
  (0 - INTERVALS(data.level)) - data.level * 10

\* calculatePriority(qid, 0): currentPosition is 0, data.lastSeenPosition || 0
\* is subtracted from it; a question never seen scores -1000 + Math.random()
\* * 100, here -1000, with any order among such questions
calculatePriority(qid) ==
  LET data == getSpacedRepData(spacedRepetition, qid)
      lastSeenPosition == IF "lastSeenPosition" \in DOMAIN data
                          THEN data.lastSeenPosition ELSE 0
  IN  IF data.seenCount = 0 THEN -1000
      ELSE ((0 - lastSeenPosition) - INTERVALS(data.level)) - data.level * 10

\* a slip: the tiers are told apart by the level alone, from the top
TierFromTop(qid) ==
  LET data == getSpacedRepData(spacedRepetition, qid) IN
  IF data.level >= 4 THEN 1 ELSE IF data.level >= 2 THEN 2 ELSE 3

\* the tier shuffleWithPriority() puts the question in
Tier(qid) ==
  LET data == getSpacedRepData(spacedRepetition, qid) IN
  IF data.seenCount = 0 \/ data.level <= 1 THEN 1
  ELSE IF data.level <= 3 THEN 2 ELSE 3

\* the orders scored.sort() can leave the ids of allQids in: ascending
\* priority, the questions never seen in any order (their scores are
\* random), equal scores in the order of allQids
SortedByPriority(allQids) ==
  LET seen(q) == getSpacedRepData(spacedRepetition, q).seenCount # 0
      at(q) == CHOOSE i \in DOMAIN allQids : allQids[i] = q
  IN  {p \in Shuffles(allQids) :
         \A i, j \in DOMAIN p :
           i < j =>
             /\ calculatePriority(p[i]) <= calculatePriority(p[j])
             /\ (calculatePriority(p[i]) = calculatePriority(p[j])
                   /\ seen(p[i])) => at(p[i]) < at(p[j])}

\* the session size startExam() asks for
SESSION_SIZE == 30

\* a slip: the sorted ids are returned whole, whatever the session size
queueOfAll(allQids, sessionSize) == SortedByPriority(allQids)

\* the results generateSmartQueue(sessionSize) can return when
\* state.allQuestionIds is allQids
generateSmartQueue(allQids, sessionSize) ==
  IF Len(allQids) = 0 THEN {<< >>}
  ELSE UNION {LET selected == SubSeq(p, 1, Min(sessionSize, Len(p)))
                  tier(t) == SelectSeq(selected, LAMBDA q : Tier(q) = t)
              IN  {u \o m \o r : u \in Shuffles(tier(1)),
                                 m \in Shuffles(tier(2)),
                                 r \in Shuffles(tier(3))} :
                p \in SortedByPriority(allQids)}

\* startExam()
StartExam ==
  /\ panel = "setup"
  /\ \E examQuestions \in
          (IF currentMode = "smart"
           THEN generateSmartQueue(allQuestionIds, SESSION_SIZE)
           ELSE IF selectedExamIndex # Null
                     /\ selectedExamIndex + 1 \in DOMAIN exams
                THEN {exams[selectedExamIndex + 1]} ELSE {<< >>}) :
       IF Len(examQuestions) = 0
       THEN UNCHANGED <<roundVars, panel, timerInterval, intervals>>
       ELSE showRound(BASE, examQuestions, currentMode)
  /\ UNCHANGED <<wrongCounts, roundFrame, baseState, baseStack>>

\* startReview(reviewType), for any call of it on the results panel (its
\* buttons are shown when there is a snapshot, and enabled when their
\* review set is not empty)
StartReview(reviewType) ==
  LET questions == getReviewQuestions(baseState, baseStack, reviewType) IN
  /\ panel = "results"
  /\ IF Len(questions) = 0 \/ ~startRoundResult(questions)
     THEN UNCHANGED <<roundVars, panel, timerInterval, intervals>>
     ELSE showRound(reviewType, questions, currentMode)
  /\ UNCHANGED <<wrongCounts, roundFrame, baseState, baseStack>>

\* backToBaseResults(), whose button renderResults() shows after a review
\* round when there is a snapshot
BackToBaseResults ==
  /\ panel = "results"
  /\ currentRoundType # BASE
  /\ baseState # NullRef /\ baseStack # NullRef
  /\ currentRoundType' = BASE
  /\ restoreBaseState
  /\ UNCHANGED <<currentIndex, answerOrder, questionStartTime, wrongCounts,
                 roundFrame, sessionVars>>

\* resetToSetup(), the new exam button of the results panel
ResetToSetup ==
  /\ panel = "results"
  /\ panel' = "setup"
  /\ selectedExamIndex' =
       IF currentMode # "smart" /\ Len(exams) > 0 /\ currentMode # NoMode
       THEN Null ELSE selectedExamIndex
  /\ UNCHANGED <<storeVars, syncVars, roundVars, currentMode, baseState,
                 baseStack, timerInterval, intervals>>

RECURSIVE SortedSeq(_)
\* the elements of a set of numbers in ascending order
SortedSeq(S) ==
  IF S = {} THEN << >>
  ELSE LET lo == CHOOSE x \in S : \A y \in S : x <= y
       IN  <<lo>> \o SortedSeq(S \ {lo})

\* getAllWeakQuestionIds(): Object.keys(state.wrongCounts).map(Number)
getAllWeakQuestionIds == SortedSeq(DOMAIN wrongCounts)

\* reviewWeakPoints(), the button of the stats panel, which opens from the
\* setup and the results panel
ReviewWeakPoints ==
  LET weakIds == getAllWeakQuestionIds
      mode == IF currentMode = NoMode THEN "learning" ELSE currentMode
  IN  /\ panel \in {"setup", "results"}
      /\ IF Len(weakIds) = 0
         THEN UNCHANGED <<roundVars, panel, timerInterval, intervals,
                           currentMode>>
         ELSE /\ currentMode' = mode
              /\ showRound(REVIEW_WEAK, weakIds, mode)
      /\ UNCHANGED <<storeVars, syncVars, selectedExamIndex, baseState,
                     baseStack>>

\* ------------------------------------------------------- environment
\* 250 ms pass; a due timer fires before more time passes
Tick ==
  /\ now < MaxTime
  /\ timeoutId = Null \/ now < timeoutId
  /\ now' = now + 1
  /\ UNCHANGED <<syncStatus, storeVars, syncId, isSaving, lastCloudTimestamp, db, dataRef,
                 listeners, timeoutId, storedSyncId, onDataChangeCallback, sdk,
                 remote, pendingSet, pendingOnce, flow, roundVars, modeVars, sessionVars>>

Reverse(arr) == [i \in 1..Len(arr) |-> arr[Len(arr) + 1 - i]]

\* a store as another device of the same owner may hold it
SampleStore(v) ==
  [completedLearning |-> <<v - 1>>,
   completedExam |-> <<v - 1>>,
   history |->
     <<[mode |-> "exam", total |-> 1, correct |-> v - 1,
        pct |-> 100 * (v - 1), avgTime |-> 0]>>,
   wrongCounts |-> (1 :> v),
   exams |-> ExamsOf(IF v = 1 THEN allQuestionIds ELSE Reverse(allQuestionIds)),
   questionMeta |-> (1 :> [flagged |-> v = 1, note |-> ""]),
   spacedRepetition |-> (1 :> [level |-> v, lastSeen |-> 1, seenCount |-> 1]),
   examHistory |->
     <<[mode |-> "exam", examIndex |-> 0, total |-> 1, correct |-> v - 1,
        pct |-> 100 * (v - 1), passed |-> v = 2,
        questions |-> <<[qid |-> 1, answer |-> "A", correct |-> v = 2]>>]>>]

\* the fields a document of the first version of the application holds
\* (questionMeta, spacedRepetition and examHistory were added later)
LegacyFields ==
  {"completedLearning", "completedExam", "history", "wrongCounts", "exams"}

\* documents other devices write in Spec and SpecSwitch: a full and a
\* legacy document of a used profile, and a document of a new, empty profile
OtherDocs ==
  {MakeDoc(2, Fields, SampleStore(1)), MakeDoc(3, LegacyFields, SampleStore(2)),
   MakeDoc(2, Fields, EmptyStore)}

\* another device of the same owner writes users/p
OtherDeviceWrite(p, d) ==
  /\ remote' = [remote EXCEPT ![p] = d]
  /\ UNCHANGED <<syncStatus, storeVars, syncId, isSaving, lastCloudTimestamp, db,
                 dataRef, listeners, timeoutId, storedSyncId,
                 onDataChangeCallback, now, sdk, pendingSet, pendingOnce, flow,
                 roundVars, modeVars, sessionVars>>

\* --------------------------------------- the write path (one profile)
Next ==
  \/ InitFirebase
  \/ \E r \in pendingOnce : OnceResolve(r)
  \/ TimerFire
  \/ SetResolve
  \/ SetReject
  \/ \E p \in Profiles : Notify(p)
  \/ ClearStats
  \/ ResetAll
  \/ Tick
  \/ \E p \in listeners : \E d \in OtherDocs : OtherDeviceWrite(p, d)

Spec == Init /\ [][Next]_vars

\* ------------------------------------------------- profile switching
\* the owner asks for another profile once the pulls asked for before have
\* been answered
NextSwitch ==
  \/ InitFirebase
  \/ \E p \in Profiles \cup {Null} : pendingOnce = {} /\ ConnectToSyncId(p)
  \/ \E r \in pendingOnce : OnceResolve(r)
  \/ \E r \in pendingOnce : OnceReject(r)
  \/ SetResolve
  \/ SetReject
  \/ \E p \in Profiles : Notify(p)
  \/ ResetSyncProfile
  \/ ReloadPage
  \/ \E p \in Profiles : \E d \in OtherDocs : OtherDeviceWrite(p, d)

SpecSwitch == Init /\ [][NextSwitch]_vars

\* --------------------------------------------------------------- rounds
\* the longest stack a round is started with
MaxStack == 2

\* the question id sequences startRound is called with: the sequences up
\* to MaxStack ids that hold no id twice (as an exam, a review set and a
\* smart queue do), and the empty sequence
RoundStacks ==
  UNION {IF \A i, j \in DOMAIN ids : ids[i] = ids[j] => i = j
         THEN {ids} ELSE {} :
           ids \in UNION {[1..n -> QIDs] : n \in 0..MaxStack}}

\* the round types startRound is called with
StartedTypes == {BASE, REVIEW_ALL}

\* the values the answer and confidence controls hold when a handler reads
\* them: (selected answer, dontKnow, notSure)
Drafts == {<<"A", FALSE, FALSE>>, <<"B", TRUE, TRUE>>}

\* the modes the rounds of SpecRound run in (a smart round is handled as
\* an exam round by quiz.js)
RoundModes == {"learning", "exam"}

NextRound ==
  \/ \E m \in RoundModes : SetMode(m)
  \/ \E t \in StartedTypes : \E ids \in RoundStacks :
       currentMode # NoMode /\ StartRound(t, ids)
  \/ RenderQuestion
  \/ \E d \in Drafts : UpdateDraftState(d[1], d[2], d[3])
  \/ HandleNext(getSelectedAnswer)
  \/ HandleBack
  \/ \E t \in ROUND_TYPES : StartReview(t)

\* the page has loaded with the SDK present; initFirebase() has not run yet
InitRound == Init /\ sdk

SpecRound == InitRound /\ [][NextRound]_vars

\* ------------------------------------------- completion and review rounds
\* base rounds over every stack, in every mode, which end by the last
\* handleNext() or by the countdown, and the review rounds that follow
NextReview ==
  \/ \E m \in MODES : SetMode(m)
  \/ \E ids \in RoundStacks : currentMode # NoMode /\ StartRound(BASE, ids)
  \/ RenderQuestion
  \/ \E d \in Drafts : UpdateDraftState(d[1], d[2], d[3])
  \/ HandleNext(getSelectedAnswer)
  \/ TimeExpired
  \/ \E t \in ROUND_TYPES \ {BASE} : StartReview(t)
  \/ BackToBaseResults
  \/ ReviewWeakPoints

SpecReview == InitRound /\ [][NextReview]_vars

\* ------------------------------------------------- checks of a question
\* the answers checkCurrentQuestion is called with
CheckedAnswers == Letters \cup {NoAnswer}

\* checkCurrentQuestion(selectedAnswer), called on its own
CheckCurrentQuestion(selectedAnswer) ==
  LET qid == getCurrentQuestionId IN
  /\ (checkResult(selectedAnswer) /\ qid \in DOMAIN wrongCounts)
       => wrongCounts[qid] < MaxWrong
  /\ checkCurrentQuestion(selectedAnswer)
  /\ UNCHANGED <<currentRoundType, stack, currentIndex, answerOrder,
                 questionStartTime, roundFrame, sessionVars>>

\* rounds in every mode in which questions are checked by handleNext() and
\* by calls of checkCurrentQuestion() on its own
NextCheck ==
  \/ \E m \in MODES : SetMode(m)
  \/ \E ids \in RoundStacks : currentMode # NoMode /\ StartRound(BASE, ids)
  \/ RenderQuestion
  \/ \E d \in Drafts : UpdateDraftState(d[1], d[2], d[3])
  \/ \E a \in CheckedAnswers : CheckCurrentQuestion(a)
  \/ HandleNext(getSelectedAnswer)

SpecCheck == InitRound /\ [][NextCheck]_vars

\* --------------------------------------------------- the owner's session
\* the owner picks a mode and an exam on the setup panel, runs the round to
\* its results, reviews, returns to the setup panel, and may reset all
\* progress there
NextSession ==
  \/ \E m \in MODES : panel = "setup" /\ SelectMode(m)
  \/ \E idx \in 0..(TOTAL_EXAMS - 1) : SelectExam(idx)
  \/ StartExam
  \/ \E d \in Drafts : UpdateDraftState(d[1], d[2], d[3])
  \/ HandleNext(getSelectedAnswer)
  \/ HandleBack
  \/ \E t \in ROUND_TYPES \ {BASE} : StartReview(t)
  \/ BackToBaseResults
  \/ ResetToSetup
  \/ panel = "setup" /\ ResetAll

SpecSession == InitRound /\ [][NextSession]_vars

\* ------------------------------------------------------- wrong counts
\* the round that raises a wrong count in SpecCounts: an exam round over
\* question 2, the question with a wrong letter
CountModes == {"exam"}
CountStacks == {<<2>>}

\* the document other devices write in SpecCounts: of the fields of a used
\* profile it holds the wrong counts only, in which question 2 has none
CountDocs == {MakeDoc(2, {"wrongCounts"}, SampleStore(1))}

\* what raises and what lowers the wrong counts: the checks of a round, the
\* buttons of the stats panel, the documents of other devices, and the
\* switches of the profile
NextCounts ==
  \/ \E m \in CountModes : SetMode(m)
  \/ \E ids \in CountStacks : currentMode # NoMode /\ StartRound(BASE, ids)
  \/ RenderQuestion
  \/ \E d \in Drafts : UpdateDraftState(d[1], d[2], d[3])
  \/ HandleNext(getSelectedAnswer)
  \/ ClearStats
  \/ ResetAll
  \/ InitFirebase
  \/ \E r \in pendingOnce : OnceResolve(r)
  \/ \E p \in Profiles : pendingOnce = {} /\ ConnectToSyncId(p)
  \/ \E p \in Profiles : Notify(p)
  \/ \E p \in Profiles : \E d \in CountDocs : OtherDeviceWrite(p, d)

SpecCounts == InitRound /\ [][NextCounts]_vars

\* ------------------------------------------------ the exam history
\* the records added in a run of SpecHistory, and the passed exams among
\* the records the history holds
MaxRecords == 52
MaxPassed == 1

\* the number in the id of the last record added ('exam_' + Date.now())
LastRecordId ==
  IF examHistory = << >> THEN 0 ELSE examHistory[Len(examHistory)].id

\* addExamHistory(examResult) on its own: the record is examResult with an
\* id of the time of the call
AddExamHistory(examResult) ==
  /\ LastRecordId < MaxRecords
  /\ examResult.passed =>
       Cardinality({i \in DOMAIN examHistory : examHistory[i].passed})
         < MaxPassed
  /\ examHistory' =
       addExamHistory(examHistory,
                      [id |-> LastRecordId + 1] @@ examResult)
  /\ UNCHANGED <<completedLearning, completedExam, history, wrongCounts,
                 exams, questionMeta, spacedRepetition, timeoutId, modeVars,
                 localFrame>>

NextHistory == \E passed \in BOOLEAN : AddExamHistory([passed |-> passed])

SpecHistory == InitRound /\ [][NextHistory]_vars

\* ------------------------------------------------------ inbound merges
\* timestamps of the documents other devices write in SpecMerge: none (0),
\* and the times up to MaxStamp
MaxStamp == 1

\* documents other devices write in SpecMerge: a used or an empty store, of
\* which every field, no field or a single field is present
MergeDocs ==
  {MakeDoc(ts, has, s) :
     ts \in 0..MaxStamp,
     has \in {Fields, {}} \cup {{f} : f \in Fields},
     s \in {SampleStore(1), EmptyStore}}

NextMerge ==
  \/ InitFirebase
  \/ \E r \in pendingOnce : OnceResolve(r)
  \/ SetResolve
  \/ SetReject
  \/ \E p \in Profiles : Notify(p)
  \/ \E p \in listeners : \E d \in MergeDocs : OtherDeviceWrite(p, d)

SpecMerge == Init /\ [][NextMerge]_vars

\* ================================================================ claims
\* the field f of the store a document describes
FieldOfDoc(data, f) == StoreOfDoc(data)[f]

\* C1: a notification handled while no write is in flight, whose document
\* has a timestamp less than or equal to lastCloudTimestamp or has no
\* timestamp, leaves every Progress Store field and lastCloudTimestamp
\* unchanged.
C1_StaleNotificationIgnored ==
  [][\A p \in Profiles :
       (Notify(p) /\ ~isSaving /\ ~(remote[p].timestamp > lastCloudTimestamp))
         => UNCHANGED <<storeVars, lastCloudTimestamp>>]_vars

\* a stale document that differs from the local store is on the listened
\* profile while no write is in flight, after a document has been applied
C1_Witness ==
  \E p \in listeners :
    /\ ~isSaving
    /\ remote[p].exists
    /\ remote[p].timestamp # 0
    /\ remote[p].timestamp <= lastCloudTimestamp
    /\ remote[p].has = Fields
    /\ StoreOfDoc(remote[p]) # Store
    /\ Store # EmptyStore

\* C2: when an inbound update with a timestamp greater than
\* lastCloudTimestamp is applied, each Progress Store field equals the
\* payload's value if the payload has the field (an empty collection
\* included) and keeps its local value otherwise, and lastCloudTimestamp
\* equals the payload's timestamp.
C2_AppliedUpdateTakesPresentFields ==
  [][\A p \in Profiles :
       (Notify(p) /\ ~isSaving /\ remote[p].exists
          /\ remote[p].timestamp > lastCloudTimestamp)
         => /\ \A f \in Fields :
                 Store'[f] = IF f \in remote[p].has
                             THEN FieldOfDoc(remote[p], f) ELSE Store[f]
            /\ lastCloudTimestamp' = remote[p].timestamp]_vars

\* C3: an inbound update does not overwrite newer local state: when the
\* store was mutated (saveAll called) later than the inbound document was
\* written and the debounce timer of that mutation is still pending,
\* handling the notification leaves the Progress Store as it is.
C3_PendingMutationKept ==
  [][\A p \in Profiles :
       (Notify(p) /\ timeoutId # Null /\ remote[p].exists
          /\ remote[p].timestamp < timeoutId - SAVE_DEBOUNCE)
         => UNCHANGED storeVars]_vars

\* C4: while a local write is in flight every notification is ignored,
\* whatever timestamp it carries: no Progress Store field changes and
\* lastCloudTimestamp does not change.
C4_IgnoredWhileSaving ==
  [][\A p \in Profiles :
       (Notify(p) /\ isSaving) => UNCHANGED <<storeVars, lastCloudTimestamp>>]_vars

\* a write is in flight while the listened profile holds a newer document
\* that differs from the local store
C4_Witness ==
  \E p \in listeners :
    /\ isSaving
    /\ pendingSet.ref = p
    /\ remote[p].exists
    /\ remote[p].timestamp > lastCloudTimestamp
    /\ StoreOfDoc(remote[p]) # Store

\* C5: every saveAll call re-arms the one debounce timer to one debounce
\* delay after that call, so a burst ends in a single saveToCloud, which
\* runs one delay after the last call, and the document it sends is the
\* full Progress Store as it is at that moment.
C5_DebouncedSingleWrite ==
  [][/\ (ClearStats \/ ResetAll) => timeoutId' = now + SAVE_DEBOUNCE
     /\ TimerFire =>
          /\ now = timeoutId
          /\ timeoutId' = Null
          /\ pendingSet' # pendingSet =>
               pendingSet' = [ref |-> dataRef,
                              data |-> MakeDoc(now, Fields, Store)]]_vars

\* the write of a save asked for after the first tick is in flight: the
\* timer has fired, once, and its document holds the store of that moment
C5_Witness ==
  /\ pendingSet.ref # Null
  /\ timeoutId = Null
  /\ now > 1 + SAVE_DEBOUNCE
  /\ pendingSet.data = MakeDoc(now, Fields, Store)
  /\ Store # EmptyStore

\* C8: a failed remote write leaves the Progress Store and
\* lastCloudTimestamp unchanged; isSaving is false once a write attempt
\* has ended, by success or by failure, and exactly while no write is in
\* flight, so later saves and notifications pass the guard.
C8_FailedWriteNotFatal ==
  [][/\ SetReject => UNCHANGED <<storeVars, lastCloudTimestamp>>
     /\ (SetReject \/ SetResolve) => ~isSaving'
     /\ isSaving' = (pendingSet'.ref # Null)]_vars

\* after a failed write (the status shows the error) a later save has been
\* started
C8_Witness ==
  /\ sdk
  /\ syncStatus = ERROR
  /\ ~isSaving
  /\ pendingSet = NoWrite
  /\ timeoutId # Null
  /\ Store # EmptyStore

\* C6: connectToSyncId(id) for a profile whose snapshot exists fully
\* replaces local state: when it returns true every Progress Store field
\* equals the new profile's snapshot, also for the fields the snapshot
\* lacks or holds as empty.
C6_ConnectReplacesStore ==
  [][\A r \in pendingOnce :
       (OnceResolve(r) /\ r.op = "connect" /\ remote[r.ref].exists)
         => Store' = StoreOfDoc(remote[r.ref])]_vars

C9_NoRaiseWithoutService == ~db => flow # "aborted"

\* C10: for every non-empty sequence of question ids, startRound(type, ids)
\* returns true and leaves round type = type, stack = ids, currentIndex = 0
\* (getCurrentQuestionId is the first id) and empty draft state and answer
\* orders, whatever round was in progress before.
C10_StartRoundResets ==
  [][\A t \in StartedTypes : \A ids \in RoundStacks :
       (ids # << >> /\ StartRound(t, ids))
         => /\ startRoundResult(ids)
            /\ currentRoundType' = t
            /\ stack' = ids
            /\ currentIndex' = 0
            /\ getCurrentQuestionId' = ids[1]
            /\ questionState' = << >>
            /\ answerOrder' = << >>]_vars

\* a review round has just been started (nothing drafted, no answer order)
\* after a round in which an answer was checked as wrong
C10_Witness ==
  /\ currentRoundType = REVIEW_ALL
  /\ Len(stack) = MaxStack
  /\ currentIndex = 0
  /\ questionState = << >>
  /\ answerOrder = << >>
  /\ questionStartTime = now
  /\ wrongCounts # << >>

\* C11: input errors degrade to a no-op: startRound with an empty id
\* sequence returns false and changes nothing (round type, stack, index,
\* question states, answer orders); getReviewQuestions with an absent
\* BaseState or BaseStack returns the empty list for every review type, and
\* startReview then starts no round.
C11_InputErrorsNoOp ==
  [][/\ \A t \in StartedTypes :
          StartRound(t, << >>)
            => ~startRoundResult(<< >>) /\ UNCHANGED <<roundVars, sessionVars>>
     /\ \A t \in ROUND_TYPES :
          (baseState = NullRef \/ baseStack = NullRef)
            => /\ getReviewQuestions(baseState, baseStack, t) = << >>
               /\ StartReview(t) => UNCHANGED <<roundVars, sessionVars>>]_vars

\* a round has ended on the results panel with no snapshot taken, its
\* stack, question states and answer orders still in place
C11_Witness ==
  /\ panel = "results"
  /\ baseState = NullRef /\ baseStack = NullRef
  /\ stack # << >>
  /\ questionState # << >>
  /\ answerOrder # << >>
  /\ currentRoundType # BASE

\* C12: in exam-style mode (the mode is not learning), for a round of N
\* questions and N successive handleNext calls with a selected answer and
\* no retreat in between: each of the first N-1 calls checks the current
\* question and advances currentIndex by exactly one, and the Nth call
\* checks the last question and triggers completion exactly once without
\* moving the index. While such a round runs, the questions checked are
\* exactly those before the current one: k calls have moved the index to k.
C12_ExamStyleNext ==
  /\ [](( panel = "exam" /\ ~isLearningMode /\ Rendered)
          => \A i \in DOMAIN stack :
               Counted(questionState, stack[i]) <=> i <= currentIndex)
  /\ [][(HandleNext(getSelectedAnswer) /\ getSelectedAnswer # NoAnswer
           /\ ~isLearningMode)
         => LET qid == getCurrentQuestionId IN
            /\ Counted(questionState', qid)
            /\ questionState'[qid].selectedAnswer = getSelectedAnswer
            /\ questionState'[qid].status = "correct"
                 <=> getSelectedAnswer \in correctLetters(qid)
            /\ IF currentIndex + 1 < Len(stack)
               THEN /\ currentIndex' = currentIndex + 1
                    /\ panel' = "exam"
                    /\ UNCHANGED <<history, examHistory, baseState, baseStack>>
               ELSE /\ currentIndex' = currentIndex
                    /\ panel' = "results"
                    /\ ~timerInterval'
                    /\ currentRoundType = BASE
                         => /\ Len(history') = Len(history) + 1
                            /\ Len(examHistory') = Len(examHistory) + 1]_vars

\* an exam-style base round of MaxStack questions has been completed by its
\* last handleNext(): every question of the stack has been checked
C12_Witness ==
  /\ panel = "results"
  /\ currentMode \in {"exam", "smart"}
  /\ currentRoundType = BASE
  /\ Len(stack) = MaxStack
  /\ currentIndex = MaxStack - 1
  /\ \A i \in DOMAIN stack : Counted(questionState, stack[i])
  /\ Len(history) = 1

\* C13: in learning mode, handleNext on a question whose status is
\* unanswered checks it and leaves currentIndex unchanged; a following
\* handleNext on the same, now answered, question does not check again and
\* either advances currentIndex by one or, at the last question, triggers
\* completion. While a learning round runs without retreat, the questions
\* before the current one are answered and those after it are not, so the
\* calls made are two for each question passed plus one if the current
\* question is answered: completing N questions takes exactly 2N calls.
C13_LearningNext ==
  /\ []((panel = "exam" /\ isLearningMode /\ Rendered)
          => \A i \in DOMAIN stack :
               /\ i <= currentIndex => Counted(questionState, stack[i])
               /\ i > currentIndex + 1 => ~Counted(questionState, stack[i]))
  /\ [][(HandleNext(getSelectedAnswer) /\ getSelectedAnswer # NoAnswer
           /\ isLearningMode)
         => LET qid == getCurrentQuestionId IN
            IF ~Answered(qid)
            THEN /\ Counted(questionState', qid)
                 /\ questionState'[qid].selectedAnswer = getSelectedAnswer
                 /\ questionState'[qid].status = "correct"
                      <=> getSelectedAnswer \in correctLetters(qid)
                 /\ currentIndex' = currentIndex
                 /\ UNCHANGED <<panel, history, examHistory, baseState,
                                baseStack>>
            ELSE /\ UNCHANGED <<questionState, wrongCounts>>
                 /\ IF currentIndex + 1 < Len(stack)
                    THEN /\ currentIndex' = currentIndex + 1
                         /\ UNCHANGED <<panel, history, examHistory,
                                        baseState, baseStack>>
                    ELSE /\ currentIndex' = currentIndex
                         /\ panel' = "results"
                         /\ currentRoundType = BASE
                              => /\ Len(history') = Len(history) + 1
                                 /\ Len(examHistory') = Len(examHistory) + 1]_vars

\* a learning base round of MaxStack questions has been completed, one of
\* its answers having been shown as wrong
C13_Witness ==
  /\ panel = "results"
  /\ currentMode = "learning"
  /\ currentRoundType = BASE
  /\ Len(stack) = MaxStack
  /\ currentIndex = MaxStack - 1
  /\ \A i \in DOMAIN stack : Counted(questionState, stack[i])
  /\ \E i \in DOMAIN stack : questionState[stack[i]].status = "wrong"
  /\ Len(history) = 1

\* C14: checkCurrentQuestion with no selected answer returns false and
\* changes nothing. With a selected letter (and a current question) it
\* returns true, sets the current question's status to correct exactly when
\* the letter is one of the question's correct letters and to wrong
\* otherwise, and increments that question's WrongCount by exactly 1 when
\* wrong and by 0 when correct; the states and WrongCounts of all other
\* questions are unchanged.
C14_CheckCurrentQuestion ==
  [][\A a \in CheckedAnswers :
       CheckCurrentQuestion(a) =>
         LET qid == getCurrentQuestionId
             count(wc, q) == IF q \in DOMAIN wc THEN wc[q] ELSE 0
         IN  IF a = NoAnswer
             THEN ~checkResult(a) /\ UNCHANGED vars
             ELSE qid # Null =>
                    /\ checkResult(a)
                    /\ qid \in DOMAIN questionState'
                    /\ questionState'[qid].selectedAnswer = a
                    /\ questionState'[qid].status =
                         IF a \in correctLetters(qid) THEN "correct" ELSE "wrong"
                    /\ count(wrongCounts', qid) =
                         count(wrongCounts, qid)
                           + (IF a \in correctLetters(qid) THEN 0 ELSE 1)
                    /\ DOMAIN questionState' = DOMAIN questionState \cup {qid}
                    /\ DOMAIN wrongCounts' \subseteq DOMAIN wrongCounts \cup {qid}
                    /\ \A q \in QIDs \ {qid} :
                         /\ q \in DOMAIN questionState
                              => questionState'[q] = questionState[q]
                         /\ count(wrongCounts', q) = count(wrongCounts, q)
                         /\ q \in DOMAIN wrongCounts' <=> q \in DOMAIN wrongCounts]_vars

\* in an exam round, where handleNext() moves on as it checks, the current
\* question has been checked on its own: its second correct letter was
\* taken as correct, and the wrong answer to the question before it is the
\* only one counted
C14_Witness ==
  /\ panel = "exam"
  /\ currentMode = "exam"
  /\ stack = <<2, 1>>
  /\ currentIndex = 1
  /\ 1 \in DOMAIN questionState
  /\ questionState[1].status = "correct"
  /\ questionState[1].selectedAnswer = "B"
  /\ questionState[2].status = "wrong"
  /\ wrongCounts = (2 :> 1)

\* C15: completing a round of any review type (ReviewWrong, ReviewNotSure,
\* ReviewDontKnow, ReviewAll, ReviewWeak) leaves history, examHistory,
\* completedLearning and completedExam unchanged; completing a Base round
\* appends exactly one HistoryEntry and exactly one ExamHistoryRecord, both
\* describing that round's stack and question states.
C15_OnlyBaseRoundsRecorded ==
  [][(panel = "exam" /\ panel' = "results") =>
       IF currentRoundType # BASE
       THEN UNCHANGED <<history, examHistory, completedLearning,
                        completedExam>>
       ELSE LET isCorrect(q) == q \in DOMAIN questionState'
                                  /\ questionState'[q].status = "correct"
                nCorrect == Cardinality({i \in DOMAIN stack :
                                           isCorrect(stack[i])})
                entry == history'[Len(history')]
                record == examHistory'[Len(examHistory')]
            IN  /\ Len(history') = Len(history) + 1
                /\ SubSeq(history', 1, Len(history)) = history
                /\ entry.mode = currentMode
                /\ entry.total = Len(stack)
                /\ entry.correct = nCorrect
                /\ 2 * entry.pct * Len(stack) <= 200 * nCorrect + Len(stack)
                /\ 2 * entry.pct * Len(stack) > 200 * nCorrect - Len(stack)
                /\ Len(examHistory') = Len(examHistory) + 1
                /\ SubSeq(examHistory', 1, Len(examHistory)) = examHistory
                /\ record.mode = currentMode
                /\ record.total = Len(stack)
                /\ record.correct = nCorrect
                /\ record.pct = entry.pct
                /\ Len(record.questions) = Len(stack)
                /\ \A i \in DOMAIN stack :
                     /\ record.questions[i].qid = stack[i]
                     /\ record.questions[i].correct = isCorrect(stack[i])
                     /\ record.questions[i].answer =
                          IF stack[i] \in DOMAIN questionState'
                          THEN questionState'[stack[i]].selectedAnswer
                          ELSE NoAnswer]_vars

\* a review round over the wrong answers of a recorded base round has been
\* completed in learning mode, its question answered
C15_Witness ==
  /\ panel = "results"
  /\ currentMode = "learning"
  /\ currentRoundType = REVIEW_WRONG
  /\ baseState # NullRef
  /\ Counted(questionState, stack[1])
  /\ Len(history) = 1
  /\ Len(examHistory) = 1

\* C16: an exam-set index is added to a completed set only by the
\* completion of a Base round that originated from that exam set (its
\* stack is that exam set's questions): a Base round that did not originate
\* from an exam set, such as a smart session over a generated queue, marks
\* no exam set as completed, also when an exam index was selected earlier
\* in another mode.
C16_OnlyOriginatingExamMarked ==
  [][\A idx \in 0..(TOTAL_EXAMS - 1) :
       (\/ idx \in Range(completedLearning') \ Range(completedLearning)
        \/ idx \in Range(completedExam') \ Range(completedExam))
         => /\ panel = "exam" /\ panel' = "results"
            /\ currentRoundType = BASE
            /\ currentMode # "smart"
            /\ idx + 1 \in DOMAIN exams
            /\ stack = exams[idx + 1]]_vars

\* C17: after a Base round completes, BaseState and BaseStack equal that
\* round's final question states and stack, and they stay equal to them
\* through any number of review sub-rounds (their startRound, draft
\* updates, checks, advances, retreats and completions), until the next
\* Base round completes; backToBaseResults at any such point restores the
\* live question states and stack to exactly those base values with round
\* type Base.
C17_SnapshotKept ==
  [][/\ IF panel = "exam" /\ panel' = "results" /\ currentRoundType = BASE
        THEN /\ baseState' = Ref(questionState')
             /\ baseStack' = Ref(stack')
        ELSE UNCHANGED <<baseState, baseStack>>
     /\ BackToBaseResults
          => /\ questionState' = Deref(baseState)
             /\ stack' = Deref(baseStack)
             /\ currentRoundType' = BASE
             /\ UNCHANGED <<baseState, baseStack>>]_vars

\* a review sub-round of a two-question base round has been completed: the
\* live stack and question states differ from the snapshot that
\* backToBaseResults() is about to restore
C17_Witness ==
  /\ panel = "results"
  /\ currentRoundType \in ROUND_TYPES \ {BASE, REVIEW_WEAK}
  /\ baseState # NullRef /\ baseStack # NullRef
  /\ Len(Deref(baseStack)) = 2
  /\ Len(stack) = 1
  /\ Counted(questionState, stack[1])
  /\ questionState # Deref(baseState)

\* C18: for every BaseState/BaseStack snapshot, getReviewQuestions of
\* REVIEW_WRONG returns exactly the ids of BaseStack whose snapshot status
\* is wrong, and getReviewQuestions of REVIEW_ALL returns the union of the
\* REVIEW_WRONG, REVIEW_NOT_SURE and REVIEW_DONT_KNOW results with every id
\* exactly once; every returned id is a member of BaseStack.
C18_ReviewWrongAndAll ==
  (baseState # NullRef /\ baseStack # NullRef) =>
    LET bs == Deref(baseState)
        result(t) == getReviewQuestions(baseState, baseStack, t)
        once(arr) == \A i, j \in DOMAIN arr : arr[i] = arr[j] => i = j
    IN  /\ Range(result(REVIEW_WRONG)) =
             {q \in Range(Deref(baseStack)) :
                q \in DOMAIN bs /\ bs[q].status = "wrong"}
        /\ once(result(REVIEW_WRONG))
        /\ Range(result(REVIEW_ALL)) =
             Range(result(REVIEW_WRONG)) \cup Range(result(REVIEW_NOT_SURE))
               \cup Range(result(REVIEW_DONT_KNOW))
        /\ once(result(REVIEW_ALL))
        /\ \A t \in ROUND_TYPES : Range(result(t)) \subseteq Range(Deref(baseStack))

\* the snapshot of a two-question round holds a wrong answer flagged as not
\* sure and a correct answer flagged as don't know: the review of all holds
\* both ids once, the review of the wrong answers holds one
C18_Witness ==
  /\ baseState # NullRef /\ baseStack # NullRef
  /\ Len(Deref(baseStack)) = 2
  /\ \E q \in DOMAIN Deref(baseState) :
       Deref(baseState)[q].status = "wrong" /\ Deref(baseState)[q].notSure
  /\ \E q \in DOMAIN Deref(baseState) :
       Deref(baseState)[q].status = "correct" /\ Deref(baseState)[q].dontKnow
  /\ Len(getReviewQuestions(baseState, baseStack, REVIEW_ALL)) = 2
  /\ Len(getReviewQuestions(baseState, baseStack, REVIEW_WRONG)) = 1

\* C19: for every BaseState/BaseStack snapshot, getReviewQuestions of
\* REVIEW_NOT_SURE returns all ids of BaseStack whose snapshot state has
\* notSure set, and of REVIEW_DONT_KNOW all ids whose snapshot state has
\* dontKnow set, whatever the status of those questions (also questions
\* flagged in a draft but left unanswered when the round was completed by
\* time expiry).
C19_FlaggedWhateverStatus ==
  (baseState # NullRef /\ baseStack # NullRef) =>
    LET bs == Deref(baseState)
        flagged(f) == {q \in Range(Deref(baseStack)) : q \in DOMAIN bs /\ bs[q][f]}
    IN  /\ Range(getReviewQuestions(baseState, baseStack, REVIEW_NOT_SURE))
             = flagged("notSure")
        /\ Range(getReviewQuestions(baseState, baseStack, REVIEW_DONT_KNOW))
             = flagged("dontKnow")

\* the wrong count of question q in the map wc
WrongCount(wc, q) == IF q \in DOMAIN wc THEN wc[q] ELSE 0

\* some question's wrong count is lowered by the step
WrongCountLowered ==
  \E q \in QIDs : WrongCount(wrongCounts', q) < WrongCount(wrongCounts, q)

\* C20: for every question, its WrongCount never decreases across any
\* sequence of operations (checks, round starts and completions,
\* clearStats, inbound sync merges, profile switches) except by the full
\* progress reset (resetAllData).
C20_WrongCountMonotone ==
  [][WrongCountLowered => ResetAll]_vars

\* C20 as amended: a WrongCount never decreases across mode changes, round
\* starts, draft updates, checks, advances, completions, the start of a
\* profile switch and the writes of other devices; it is lowered only by
\* clearStats, by the full reset, and by applying an inbound document (a
\* notification that is applied, or the snapshot pulled by initFirebase or
\* connectToSyncId), whose wrong counts replace the local ones.
C20_WrongCountLoweredOnlyBy ==
  [][/\ WrongCountLowered
          => \/ ClearStats
             \/ ResetAll
             \/ \E p \in Profiles : Notify(p)
             \/ \E r \in pendingOnce : OnceResolve(r)
     /\ (\/ \E m \in CountModes : SetMode(m)
         \/ \E ids \in CountStacks : StartRound(BASE, ids)
         \/ RenderQuestion
         \/ \E d \in Drafts : UpdateDraftState(d[1], d[2], d[3])
         \/ HandleNext(getSelectedAnswer)
         \/ InitFirebase
         \/ \E p \in Profiles : ConnectToSyncId(p)
         \/ \E p \in Profiles : \E d \in CountDocs : OtherDeviceWrite(p, d))
          => ~WrongCountLowered]_vars

\* the wrong answer to question 2 was checked in the round just completed,
\* and the count it raised is gone: a document of another device, which counts
\* question 1 only, has been applied since
C20_Witness ==
  /\ panel = "results"
  /\ 2 \in DOMAIN questionState
  /\ questionState[2].status = "wrong"
  /\ wrongCounts = (1 :> 1)
  /\ lastCloudTimestamp = 2

\* C21: the detailed exam history is a FIFO bounded to 50: addExamHistory
\* on a store holding k < 50 records yields k+1 records with the new one
\* last; on a store holding 50 it yields exactly 50 records, the previously
\* oldest one removed, the other 49 in their previous order and the new one
\* last. After any sequence of additions the store holds at most 50
\* records.
C21_ExamHistoryFifo ==
  /\ [](Len(examHistory) <= 50)
  /\ [][\A passed \in BOOLEAN :
          AddExamHistory([passed |-> passed]) =>
            LET k == Len(examHistory)
                new == examHistory'[Len(examHistory')]
            IN  /\ new.id = LastRecordId + 1
                /\ new.passed = passed
                /\ IF k < 50
                   THEN /\ Len(examHistory') = k + 1
                        /\ \A i \in 1..k : examHistory'[i] = examHistory[i]
                   ELSE /\ Len(examHistory') = 50
                        /\ \A i \in 1..49 :
                             examHistory'[i] = examHistory[i + 1]]_vars

\* the history is full and its oldest records have been dropped: it holds
\* the 50 records added last, the passed exam among them
C21_Witness ==
  /\ Len(examHistory) = 50
  /\ examHistory[1].id = 3
  /\ examHistory[50].id = 52
  /\ \E i \in 2..49 : examHistory[i].passed

\* ------------------------------------------- smart.js: levels, on their own
\* the number of answers recorded for one question
MaxUpdates == 4

\* updateSpacedRepLevel(qid, correct, notSure), called for one question
UpdateSpacedRepLevel(qid, correct, notSure) ==
  /\ getSpacedRepData(spacedRepetition, qid).seenCount < MaxUpdates
  /\ spacedRepetition' = updateSpacedRepLevel(spacedRepetition, qid, correct, notSure)
  /\ UNCHANGED <<completedLearning, completedExam, history, wrongCounts, exams,
                 questionMeta, examHistory, timeoutId, modeVars, localFrame>>

\* markQuestionSeen(qid, position), called for one question
MarkQuestionSeen(qid, position) ==
  /\ spacedRepetition' = markQuestionSeen(spacedRepetition, qid, position)
  /\ UNCHANGED <<completedLearning, completedExam, history, wrongCounts, exams,
                 questionMeta, examHistory, timeoutId, modeVars, localFrame>>

NextLevels ==
  \/ \E qid \in QIDs, correct \in BOOLEAN, notSure \in BOOLEAN :
       UpdateSpacedRepLevel(qid, correct, notSure)
  \/ \E qid \in QIDs, position \in 0..(MaxStack - 1) :
       MarkQuestionSeen(qid, position)

SpecLevels == InitRound /\ [][NextLevels]_vars

\* C22: updateSpacedRepLevel sets the level of the question to
\* max(0, min(5, level + delta)), where delta is +2 for a correct answer not
\* flagged not-sure, +1 for a correct answer flagged not-sure and -2 for an
\* incorrect answer whatever its flags; the seenCount of the question grows
\* by one, no other question's record changes, and every stored level stays
\* in 0..5.
C22_LevelUpdate ==
  /\ [](\A q \in DOMAIN spacedRepetition : spacedRepetition[q].level \in 0..5)
  /\ [][\A qid \in QIDs, correct \in BOOLEAN, notSure \in BOOLEAN :
          UpdateSpacedRepLevel(qid, correct, notSure) =>
            LET level == IF qid \in DOMAIN spacedRepetition
                         THEN spacedRepetition[qid].level ELSE 0
                seen == IF qid \in DOMAIN spacedRepetition
                        THEN spacedRepetition[qid].seenCount ELSE 0
                moved == level + (IF ~correct THEN -2
                                  ELSE IF notSure THEN 1 ELSE 2)
            IN  /\ qid \in DOMAIN spacedRepetition'
                /\ spacedRepetition'[qid].level =
                     (IF moved < 0 THEN 0 ELSE IF moved > 5 THEN 5 ELSE moved)
                /\ spacedRepetition'[qid].seenCount = seen + 1
                /\ \A q \in QIDs \ {qid} :
                     /\ q \in DOMAIN spacedRepetition' <=> q \in DOMAIN spacedRepetition
                     /\ q \in DOMAIN spacedRepetition =>
                          spacedRepetition'[q] = spacedRepetition[q]]_vars

\* question 1 has reached the top level and question 2, answered wrong once
\* from level 0, is still at level 0
C22_Witness ==
  /\ DOMAIN spacedRepetition = {1, 2}
  /\ spacedRepetition[1].level = 5 /\ spacedRepetition[1].seenCount = MaxUpdates
  /\ spacedRepetition[2].level = 0 /\ spacedRepetition[2].seenCount = 1

\* C23: when a completed session updates the spaced-repetition record of an
\* answered question, the record's lastSeenPosition is set to the position
\* the question had in that session's stack.
C23_SeenPositionRecorded ==
  [][\A i \in DOMAIN stack :
       LET qid == stack[i] IN
       (/\ qid \in DOMAIN spacedRepetition'
        /\ (qid \in DOMAIN spacedRepetition =>
              spacedRepetition'[qid] # spacedRepetition[qid]))
       => /\ "lastSeenPosition" \in DOMAIN spacedRepetition'[qid]
          /\ spacedRepetition'[qid].lastSeenPosition = i - 1]_vars

\* ------------------------------------------------- smart.js: getSmartStats
\* a slip: only the top level counts as mastered
isMasteredAtTop(data) == data.level >= MAX_LEVEL

\* data.level >= 4
isMastered(data) == data.level >= 4

\* getSmartStats(), on the universe allQids and the records srData
getSmartStats(allQids, srData) ==
  LET bucket(qid) ==
        IF qid \notin DOMAIN srData \/ srData[qid].seenCount = 0
        THEN "notStarted"
        ELSE IF isMastered(srData[qid]) THEN "mastered"
        ELSE IF srData[qid].level >= 1 THEN "learning"
        ELSE "struggling"
      count(b) == Cardinality({i \in DOMAIN allQids : bucket(allQids[i]) = b})
  IN  [total |-> Len(allQids),
       mastered |-> count("mastered"),
       learning |-> count("learning"),
       struggling |-> count("struggling"),
       notStarted |-> count("notStarted"),
       masteredPct |-> IF Len(allQids) # 0
                       THEN RoundDiv(count("mastered") * 100, Len(allQids))
                       ELSE 0]

\* C24: for every question universe and every set of records, getSmartStats
\* counts each id in exactly one of notStarted (no record or seenCount 0),
\* mastered (seen, level >= 4), learning (seen, level 1..3) and struggling
\* (seen, level 0), so the four counts add up to the total; for the empty
\* universe all counts and masteredPct are 0.
C24_MasteryBuckets ==
  \A universe \in RoundStacks :
    LET stats == getSmartStats(universe, spacedRepetition)
        ids == {universe[i] : i \in DOMAIN universe}
        seen == {q \in ids : q \in DOMAIN spacedRepetition
                             /\ spacedRepetition[q].seenCount > 0}
    IN  /\ stats.total = Len(universe)
        /\ stats.notStarted = Cardinality(ids \ seen)
        /\ stats.mastered =
             Cardinality({q \in seen : spacedRepetition[q].level \in {4, 5}})
        /\ stats.learning =
             Cardinality({q \in seen : spacedRepetition[q].level \in {1, 2, 3}})
        /\ stats.struggling =
             Cardinality({q \in seen : spacedRepetition[q].level = 0})
        /\ stats.mastered + stats.learning + stats.struggling
             + stats.notStarted = stats.total
        /\ universe = << >> =>
             stats = [total |-> 0, mastered |-> 0, learning |-> 0,
                      struggling |-> 0, notStarted |-> 0, masteredPct |-> 0]

\* question 1 is mastered at level 4 and question 2 has a record that was
\* never answered: one mastered, one not started, half of the universe
C24_Witness ==
  /\ DOMAIN spacedRepetition = {1, 2}
  /\ spacedRepetition[1].level = 4
  /\ spacedRepetition[2].seenCount = 0
  /\ getSmartStats(allQuestionIds, spacedRepetition).mastered = 1
  /\ getSmartStats(allQuestionIds, spacedRepetition).notStarted = 1
  /\ getSmartStats(allQuestionIds, spacedRepetition).masteredPct = 50

\* ----------------------------------------- quiz.js: computeStats, isPassed
\* isPassed(correct, total)
isPassed(correct, total) == calcPercent(correct, total) >= PASS_THRESHOLD

\* the question states of a round under way, for any bank of questions: a
\* question of the stack has no state yet, a draft, a correct answer or a
\* wrong one, checked after no time or after a second
StatStates ==
  UNION {[S -> {[selectedAnswer |-> "A", status |-> st[1], dontKnow |-> FALSE,
                 notSure |-> FALSE, time |-> st[2]] :
                  st \in {<<"unanswered", 0>>, <<"correct", 0>>,
                          <<"correct", 1>>, <<"wrong", 0>>, <<"wrong", 1>>}}] :
           S \in SUBSET QIDs}

\* a round under way over any stack, in any of these states, at any of its
\* questions, in learning or exam mode
InitStats ==
  /\ completedLearning = << >> /\ completedExam = << >> /\ history = << >>
  /\ wrongCounts = << >> /\ exams = << >> /\ questionMeta = << >>
  /\ spacedRepetition = << >> /\ examHistory = << >>
  /\ syncId = Null /\ isSaving = FALSE /\ lastCloudTimestamp = 0
  /\ db = FALSE /\ dataRef = Null /\ listeners = {} /\ timeoutId = Null
  /\ storedSyncId = Null /\ onDataChangeCallback = FALSE
  /\ now = 1 /\ sdk = TRUE /\ remote = [p \in Profiles |-> NoDoc]
  /\ pendingSet = NoWrite /\ pendingOnce = {}
  /\ flow = "idle" /\ syncStatus = NoStatus
  /\ currentMode \in RoundModes /\ selectedExamIndex = Null
  /\ currentRoundType = BASE
  /\ stack \in RoundStacks \ {<< >>}
  /\ currentIndex \in 0..(Len(stack) - 1)
  /\ questionState \in {qs \in StatStates : DOMAIN qs \subseteq Range(stack)}
  /\ answerOrder = [q \in Range(stack) |-> <<"A", "B">>]
  /\ questionStartTime = now
  /\ baseState = NullRef /\ baseStack = NullRef
  /\ panel = "exam"
  /\ timerInterval = (currentMode # "learning")
  /\ intervals = (IF currentMode = "learning" THEN 0 ELSE 1)

NextStats ==
  \/ \E d \in Drafts : UpdateDraftState(d[1], d[2], d[3])
  \/ TimeExpired
  \/ \E t \in ROUND_TYPES : StartReview(t)
  \/ BackToBaseResults

SpecStats == InitStats /\ [][NextStats]_vars

\* isPassed(correct, total) for every total up to MaxTotal
MaxTotal == 25

\* C25 (isPassed): isPassed(correct, total) holds exactly when the rounded
\* percentage of correct over total is at least 72, that is when total > 0
\* and 100 * correct / total >= 71.5; it is false for total 0 and for 2 of 3
PassedTable ==
  /\ \A total \in 0..MaxTotal : \A correct \in 0..total :
       isPassed(correct, total) <=> (total > 0 /\ 200 * correct >= 143 * total)
  /\ ~isPassed(2, 3)

\* C25 (the example): statuses correct, correct, wrong of the questions
\* 1, 2, 3 give correct 2 and wrong [3]
StatsExample ==
  LET stats == computeStats(
        [q \in 1..3 |-> [selectedAnswer |-> <<"A", "B", "D">>[q],
                         status |-> IF q = 3 THEN "wrong" ELSE "correct",
                         dontKnow |-> FALSE, notSure |-> FALSE, time |-> 0]],
        <<1, 2, 3>>)
  IN  stats.correct = 2 /\ stats.wrong = <<3>>

\* C25: computeStats(questionState, ids) returns correct = the number of ids
\* whose status is correct and wrong = the ids whose status is wrong, in
\* stack order, and skips the ids whose state is missing or unanswered, so
\* correct + |wrong| <= |ids|; isPassed is as PassedTable says and the
\* example is as StatsExample says.
C25_StatsAndPass ==
  LET stats == computeStats(questionState, stack)
      status(q) == IF q \in DOMAIN questionState
                   THEN questionState[q].status ELSE "missing"
      at(q) == CHOOSE i \in DOMAIN stack : stack[i] = q
  IN  /\ stats.correct =
           Cardinality({i \in DOMAIN stack : status(stack[i]) = "correct"})
      /\ {stats.wrong[k] : k \in DOMAIN stats.wrong} =
           {stack[i] : i \in {j \in DOMAIN stack : status(stack[j]) = "wrong"}}
      /\ \A k, l \in DOMAIN stats.wrong :
           k < l => at(stats.wrong[k]) < at(stats.wrong[l])
      /\ stats.correct + Len(stats.wrong) <= Len(stack)
      /\ PassedTable
      /\ StatsExample

\* the countdown has run out on the stack 2, 1 with both questions answered
\* wrong: the wrong ids are 2, 1 and the round is recorded as failed
C25_Witness ==
  /\ panel = "results" /\ currentRoundType = BASE
  /\ stack = <<2, 1>>
  /\ computeStats(questionState, stack).wrong = <<2, 1>>
  /\ Len(examHistory) = 1 /\ ~examHistory[1].passed

\* ------------------------------------------------ quiz.js: generateExams
\* the largest number of question ids given to generateExams
MaxIds == 6

\* loadOrGenerateExams(), for a bank of any size: exams are generated when
\* none are stored or the first stored exam is empty
LoadOrGenerateExams(ids) ==
  /\ (IF Len(exams) = 0 THEN TRUE ELSE Len(exams[1]) = 0)
  /\ exams' \in generateExams(ids)
  /\ saveAll
  /\ UNCHANGED <<completedLearning, completedExam, history, wrongCounts,
                 questionMeta, spacedRepetition, examHistory, modeVars,
                 localFrame>>

NextExams == \E n \in 0..MaxIds : LoadOrGenerateExams([i \in 1..n |-> i])

SpecExams == InitRound /\ [][NextExams]_vars

\* C26: generateExams partitions the question ids: it returns exactly
\* TOTAL_EXAMS (5) groups, every question id occurs in exactly one group,
\* at one place of it, and no group contains an id that is not in the input.
C26_ExamsPartition ==
  [][\A n \in 0..MaxIds :
       LoadOrGenerateExams([i \in 1..n |-> i]) =>
         /\ Len(exams') = 5
         /\ \A q \in 1..n :
              Cardinality({<<g, k>> \in (1..5) \X (1..n) :
                             k \in DOMAIN exams'[g] /\ exams'[g][k] = q}) = 1
         /\ \A g \in 1..5 : \A k \in DOMAIN exams'[g] : exams'[g][k] \in 1..n]_vars

\* six ids have been split: every id is somewhere in the five groups
C26_Witness ==
  /\ Len(exams) = 5
  /\ UNION {Range(exams[g]) : g \in 1..5} = 1..MaxIds
  /\ exams[1] # <<1, 2>>

\* C27: the groups returned by generateExams are of near-equal size for
\* every number of question ids: the sizes of any two groups differ by at
\* most one, so with at least TOTAL_EXAMS questions no group is empty.
C27_NearEqualGroups ==
  [][\A n \in 0..MaxIds :
       LoadOrGenerateExams([i \in 1..n |-> i]) =>
         /\ \A g, h \in 1..5 : Len(exams'[g]) - Len(exams'[h]) <= 1
         /\ n >= 5 => \A g \in 1..5 : Len(exams'[g]) > 0]_vars

\* ------------------------------------------------ main.js: the countdown
\* exitExam(), the exit button of the exam panel, when the owner confirms
ExitExam ==
  /\ panel = "exam"
  /\ stopExamTimer
  /\ panel' = "setup"
  /\ UNCHANGED <<storeVars, syncVars, roundVars, modeVars, baseState,
                 baseStack>>

NextTimer ==
  \/ \E m \in RoundModes : panel = "setup" /\ SelectMode(m)
  \/ \E idx \in 0..1 : SelectExam(idx)
  \/ StartExam
  \/ \E a \in Letters : HandleNext(a)
  \/ TimeExpired
  \/ ExitExam
  \/ StartReview(REVIEW_WRONG)
  \/ ReviewWeakPoints
  \/ ResetToSetup

SpecTimer == InitRound /\ [][NextTimer]_vars

C29_DraftKeepsResult ==
  [][\A d \in Drafts :
       UpdateDraftState(d[1], d[2], d[3]) =>
         LET qid == stack[currentIndex + 1] IN
         /\ wrongCounts' = wrongCounts
         /\ \A q \in QIDs \ {qid} :
              /\ q \in DOMAIN questionState' <=> q \in DOMAIN questionState
              /\ q \in DOMAIN questionState =>
                   questionState'[q] = questionState[q]
         /\ qid \in DOMAIN questionState' =>
              /\ questionState'[qid].status =
                   (IF qid \in DOMAIN questionState
                    THEN questionState[qid].status ELSE "unanswered")
              /\ questionState'[qid].time =
                   (IF qid \in DOMAIN questionState
                    THEN questionState[qid].time ELSE 0)
         /\ (/\ currentMode = "learning"
             /\ qid \in DOMAIN questionState
             /\ questionState[qid].status \in {"correct", "wrong"})
            => questionState' = questionState]_vars

\* in exam mode a draft has changed the answer and the flags of question 2,
\* which was checked wrong after a second: its status and time are kept
C29_Witness ==
  /\ currentMode = "exam" /\ panel = "exam"
  /\ getCurrentQuestionId = 2 /\ HasState(2)
  /\ questionState[2].status = "wrong" /\ questionState[2].time = 1
  /\ questionState[2].selectedAnswer = "B"
  /\ questionState[2].dontKnow /\ questionState[2].notSure

\* C30: handleBack decreases currentIndex by exactly one when it is greater
\* than 0 and is a no-op at the first question; in both cases it leaves
\* every question state, every answer order, all WrongCounts, the round
\* type and the stack unchanged.
C30_BackOnlyMoves ==
  [][HandleBack =>
       /\ currentIndex' = (IF currentIndex > 0 THEN currentIndex - 1
                           ELSE currentIndex)
       /\ currentIndex = 0 => UNCHANGED vars
       /\ UNCHANGED <<questionState, answerOrder, wrongCounts,
                      currentRoundType, stack>>]_vars

\* the owner is back at the first question of the stack 2, 1, whose wrong
\* answer is still recorded, with the second question rendered
C30_Witness ==
  /\ panel = "exam" /\ stack = <<2, 1>> /\ currentIndex = 0
  /\ DOMAIN answerOrder = {1, 2}
  /\ HasState(2) /\ questionState[2].status = "wrong"
  /\ 2 \in DOMAIN wrongCounts /\ wrongCounts[2] = 1

\* ------------------------------------------- smart.js: generateSmartQueue
\* startExam() in smart mode, for a bank allQids and a session size
StartSmartSession(allQids, sessionSize) ==
  /\ panel = "setup"
  /\ currentMode = "smart"
  /\ \E examQuestions \in generateSmartQueue(allQids, sessionSize) :
       IF Len(examQuestions) = 0
       THEN UNCHANGED <<roundVars, panel, timerInterval, intervals>>
       ELSE showRound(BASE, examQuestions, currentMode)
  /\ UNCHANGED <<wrongCounts, roundFrame, baseState, baseStack>>

NextQueue ==
  \/ panel = "setup" /\ SelectMode("smart")
  \/ \E qid \in QIDs, correct \in BOOLEAN, notSure \in BOOLEAN :
       panel = "setup" /\ UpdateSpacedRepLevel(qid, correct, notSure)
  \/ \E qid \in QIDs, position \in {0, SESSION_SIZE - 1} :
       panel = "setup" /\ MarkQuestionSeen(qid, position)
  \/ \E allQids \in RoundStacks, sessionSize \in 1..MaxStack :
       StartSmartSession(allQids, sessionSize)

SpecQueue == InitRound /\ [][NextQueue]_vars

\* C31: among previously-seen questions with the same lastSeenPosition, a
\* higher level biases the question toward the back of the priority
\* ordering: when the session size is smaller than the number of
\* candidates, a seen question of lower level is never left out of the
\* session while a seen question of higher level is selected.
C31_LowerLevelFirst ==
  [][\A allQids \in RoundStacks, sessionSize \in 1..MaxStack :
       (StartSmartSession(allQids, sessionSize) /\ panel' = "exam") =>
         \A lo, hi \in Range(allQids) :
           LET dlo == getSpacedRepData(spacedRepetition, lo)
               dhi == getSpacedRepData(spacedRepetition, hi)
               pos(d) == IF "lastSeenPosition" \in DOMAIN d
                         THEN d.lastSeenPosition ELSE 0
           IN  (/\ dlo.seenCount > 0 /\ dhi.seenCount > 0
                /\ pos(dlo) = pos(dhi)
                /\ dlo.level < dhi.level
                /\ hi \in Range(stack'))
               => lo \in Range(stack')]_vars

\* C32: never-seen questions (seenCount 0) always outrank seen ones in the
\* selection of generateSmartQueue: for every set of records with levels
\* in 0..5 and lastSeenPosition within a session's length, a never-seen
\* question of the bank is left out of the session only if all selected
\* questions are never-seen.
C32_NeverSeenFirst ==
  [][\A allQids \in RoundStacks, sessionSize \in 1..MaxStack :
       (StartSmartSession(allQids, sessionSize) /\ panel' = "exam") =>
         \A q \in Range(allQids) :
           (/\ q \in DOMAIN spacedRepetition => spacedRepetition[q].seenCount = 0
            /\ q \notin Range(stack'))
           => \A s \in Range(stack') :
                s \in DOMAIN spacedRepetition => spacedRepetition[s].seenCount = 0]_vars

\* a session of one question holds question 2, which was never answered,
\* while question 1 has reached level 5 and was last seen at the end of a
\* session
C32_Witness ==
  /\ panel = "exam" /\ currentMode = "smart" /\ stack = <<2>>
  /\ 2 \in DOMAIN spacedRepetition /\ spacedRepetition[2].seenCount = 0
  /\ 1 \in DOMAIN spacedRepetition /\ spacedRepetition[1].level = 5
  /\ "lastSeenPosition" \in DOMAIN spacedRepetition[1]
  /\ spacedRepetition[1].lastSeenPosition = SESSION_SIZE - 1

\* C33: the queue returned by generateSmartQueue preserves tier priority
\* whatever the random shuffles choose: every id of the urgent tier (never
\* seen or level <= 1) comes before every id of the moderate tier (level
\* 2..3), which comes before every id of the review tier (level >= 4), and
\* the queue contains exactly the ids selected by the score sort: ids of
\* the bank, each once, min(N, |bank|) of them, none with a higher score
\* than an id that was left out.
C33_TiersInOrder ==
  [][\A allQids \in RoundStacks, sessionSize \in 1..MaxStack :
       (StartSmartSession(allQids, sessionSize) /\ panel' = "exam") =>
         LET data(q) == getSpacedRepData(spacedRepetition, q)
             rank(q) == IF data(q).seenCount = 0 \/ data(q).level <= 1 THEN 1
                        ELSE IF data(q).level \in {2, 3} THEN 2 ELSE 3
         IN  /\ \A i, j \in DOMAIN stack' :
                  i < j => rank(stack'[i]) <= rank(stack'[j])
             /\ Range(stack') \subseteq Range(allQids)
             /\ Cardinality(Range(stack')) = Len(stack')
             /\ Len(stack') = (IF sessionSize < Len(allQids)
                               THEN sessionSize ELSE Len(allQids))
             /\ \A s \in Range(stack'), q \in Range(allQids) \ Range(stack') :
                  calculatePriority(s) <= calculatePriority(q)]_vars

\* a session over both questions: question 2 at level 1 (urgent) comes
\* before question 1 at level 4 (review), though question 1 has the lower
\* score
C33_Witness ==
  /\ panel = "exam" /\ currentMode = "smart" /\ stack = <<2, 1>>
  /\ 1 \in DOMAIN spacedRepetition /\ spacedRepetition[1].level = 4
  /\ 2 \in DOMAIN spacedRepetition /\ spacedRepetition[2].level = 1
  /\ spacedRepetition[1].seenCount > 0 /\ spacedRepetition[2].seenCount > 0

\* C34: for every question universe without duplicate ids and every session
\* size N >= 1, generateSmartQueue(N) returns min(N, |U|) ids, all members of
\* the universe and pairwise distinct; for an empty universe it returns the
\* empty queue, and startExam in smart mode then starts no round.
C34_QueueSize ==
  /\ [](\A allQids \in RoundStacks, sessionSize \in 1..MaxStack :
          \A queue \in generateSmartQueue(allQids, sessionSize) :
            /\ Len(queue) = (IF sessionSize < Len(allQids)
                             THEN sessionSize ELSE Len(allQids))
            /\ \A i \in DOMAIN queue : \E k \in DOMAIN allQids : queue[i] = allQids[k]
            /\ \A i, j \in DOMAIN queue : queue[i] = queue[j] => i = j)
  /\ [][\A allQids \in RoundStacks, sessionSize \in 1..MaxStack :
          StartSmartSession(allQids, sessionSize) =>
            IF allQids = << >>
            THEN UNCHANGED vars
            ELSE /\ panel' = "exam" /\ currentRoundType' = BASE
                 /\ currentIndex' = 0
                 /\ stack' \in generateSmartQueue(allQids, sessionSize)]_vars

\* a session of one question was started while no question has a record
C34_Witness ==
  /\ panel = "exam" /\ currentMode = "smart" /\ currentRoundType = BASE
  /\ Len(stack) = 1 /\ DOMAIN answerOrder = {stack[1]}
  /\ spacedRepetition = << >>

\* C35: a sync merge never interrupts a running round: applying an inbound
\* update (a notification) or a pulled snapshot (the result of a pull) at
\* any point of a round leaves the stack, currentIndex, the round type, the
\* per-question states, the answer orders, BaseState and BaseStack
\* unchanged.
C35_MergeKeepsRound ==
  [][((\E p \in Profiles : Notify(p))
       \/ (\E r \in pendingOnce : OnceResolve(r)))
     => UNCHANGED <<stack, currentIndex, currentRoundType, questionState,
                    answerOrder, baseState, baseStack, panel>>]_vars

\* the document of another device has been applied while question 2 of the
\* round holds a draft
C35_Witness ==
  /\ panel = "exam" /\ stack = <<2>>
  /\ HasState(2) /\ questionState[2].status = "unanswered"
  /\ questionState[2].notSure
  /\ wrongCounts = (1 :> 1)
  /\ lastCloudTimestamp = 2

\* ------------------------------------- switching while a pull is pending
\* nothing in connectToSync() or connectToSyncId() waits for a pull that is
\* still pending: the owner may connect while the initial load or an earlier
\* connect has not been answered
NextRace ==
  \/ InitFirebase
  \/ \E p \in Profiles : ConnectToSyncId(p)
  \/ \E r \in pendingOnce : OnceResolve(r)
  \/ \E r \in pendingOnce : OnceReject(r)
  \/ SetResolve
  \/ \E p \in Profiles : Notify(p)
  \/ \E p \in Profiles : \E d \in OtherDocs : OtherDeviceWrite(p, d)

SpecRace == Init /\ [][NextRace]_vars

\* C36: after a profile switch, local state is only ever replaced by
\* documents of the currently selected profile: no notification of a
\* previously selected profile and no result of a pull started for a
\* previously selected profile changes the Progress Store or the last
\* applied timestamp once the profile id has changed.
C36_OnlyCurrentProfileApplied ==
  [][/\ \A p \in Profiles :
          (p # syncId /\ Notify(p))
            => UNCHANGED <<storeVars, lastCloudTimestamp>>
     /\ \A r \in pendingOnce :
          (r.ref # syncId /\ OnceResolve(r))
            => UNCHANGED <<storeVars, lastCloudTimestamp>>]_vars

\* the part of C36 about notifications alone
C36_NoStaleNotification ==
  [][\A p \in Profiles :
       (p # syncId /\ Notify(p))
         => UNCHANGED <<storeVars, lastCloudTimestamp>>]_vars

\* ------------------------------------------ the write path, with fairness
\* a save is requested while the debounce delay still fits into the time
\* the model follows
CanArm == now + SAVE_DEBOUNCE <= MaxTime

\* one device and one profile: pulls and writes are answered, the debounce
\* timer fires when due, and the owner mutates the store (each of these
\* handlers ends with saveAll)
NextSave ==
  \/ InitFirebase
  \/ \E r \in pendingOnce : OnceResolve(r)
  \/ CanArm /\ SelectMode("learning")
  \/ CanArm /\ ReshuffleExams
  \/ CanArm /\ ClearStats
  \/ TimerFire
  \/ SetResolve
  \/ Tick

\* pulls and remote writes eventually complete, time passes and a due timer
\* fires
SpecSave ==
  /\ Init /\ [][NextSave]_vars
  /\ WF_vars(\E r \in pendingOnce : OnceResolve(r))
  /\ WF_vars(TimerFire)
  /\ WF_vars(SetResolve)
  /\ WF_vars(Tick)

\* the document at the data reference holds the whole local store
Saved ==
  IF dataRef = Null THEN FALSE
  ELSE /\ remote[dataRef].exists
       /\ StoreOfDoc(remote[dataRef]) = Store

\* C37: no save request is lost: provided remote writes eventually complete,
\* whenever a save is requested on a connected client (the debounce timer is
\* armed by saveAll after a local mutation), the remote document eventually
\* holds the local store, also when the timer fires while an earlier write
\* is still in flight.
C37_SaveNotLost == (timeoutId # Null /\ dataRef # Null) ~> Saved

\* ------------------------------------------- one round, checked again
\* the wrong answers counted for one question in a run of SpecRecount
MaxRecount == 2

\* handleNext(), in the runs that count a second wrong answer
HandleNextAgain(selectedAnswer) == handleNextBelow(selectedAnswer, MaxRecount)

\* one base round, started once on a fresh page (no wrong count yet), in
\* which the owner drafts, advances and goes back
NextRecount ==
  \/ \E m \in RoundModes : stack = << >> /\ SetMode(m)
  \/ \E ids \in RoundStacks :
       currentMode # NoMode /\ stack = << >> /\ StartRound(BASE, ids)
  \/ RenderQuestion
  \/ \E d \in Drafts : UpdateDraftState(d[1], d[2], d[3])
  \/ HandleNextAgain(getSelectedAnswer)
  \/ HandleBack

SpecRecount == InitRound /\ [][NextRecount]_vars

\* C38: within one round a question's WrongCount increases by at most 1,
\* whatever draft updates, advances and retreats are performed on it: in
\* the one round of SpecRecount, which starts with no wrong count, no
\* question's WrongCount exceeds 1.
C38_CountedOncePerRound ==
  \A qid \in DOMAIN wrongCounts : wrongCounts[qid] <= 1

\* the part of C38 that is about learning mode
C38_LearningCountedOnce ==
  currentMode = "learning" => C38_CountedOncePerRound

\* C39: in every reachable state of a round a question's status agrees with
\* its recorded selected answer: status correct implies that the selected
\* answer is one of the question's correct letters, and status wrong
\* implies that it is not.
C39_StatusAgreesWithAnswer ==
  \A qid \in DOMAIN questionState :
    /\ questionState[qid].status = "correct"
         => questionState[qid].selectedAnswer \in correctLetters(qid)
    /\ questionState[qid].status = "wrong"
         => questionState[qid].selectedAnswer \notin correctLetters(qid)

\* the part of C39 that is about learning mode
C39_LearningStatusAgrees ==
  currentMode = "learning" => C39_StatusAgreesWithAnswer

\* ------------------------------------------- a connect that returns false
\* the owner connects to an id other than the current one, one call at a
\* time; with two profiles the profile connected before a pending call is
\* the one the call was not made for
NextConnect ==
  \/ InitFirebase
  \/ \E p \in Profiles \cup {Null} :
       pendingOnce = {} /\ p # syncId /\ ConnectToSyncId(p)
  \/ \E r \in pendingOnce : OnceResolve(r)
  \/ \E r \in pendingOnce : OnceReject(r)
  \/ SetResolve
  \/ \E p \in Profiles : \E d \in OtherDocs : OtherDeviceWrite(p, d)

SpecConnect == Init /\ [][NextConnect]_vars

\* connectToSyncId(r.ref) returns false after its await: the pull failed,
\* or the remote profile does not exist
ReturnsFalse(r) ==
  /\ r.op = "connect"
  /\ OnceReject(r) \/ (OnceResolve(r) /\ ~remote[r.ref].exists)

\* C40: a connectToSyncId call that returns false leaves the client
\* connected as before: when the pull of a call for another profile fails
\* or finds no remote profile, the current profile id, the stored sync id,
\* the data reference and the subscription are not those of the profile
\* the call was made for, and the Progress Store is unchanged.
C40_FailedConnectKeepsProfile ==
  [][\A r \in pendingOnce :
       ReturnsFalse(r) =>
         /\ syncId' # r.ref /\ storedSyncId' # r.ref /\ dataRef' # r.ref
         /\ r.ref \notin listeners'
         /\ UNCHANGED storeVars]_vars

\* the part of C40 about the calls that return false before anything is
\* done: no new id given, or no database handle
C40_RefusedConnectKeepsProfile ==
  [][\A p \in Profiles \cup {Null} :
       (ConnectToSyncId(p) /\ (p = Null \/ ~db))
         => UNCHANGED <<syncId, storedSyncId, dataRef, listeners, storeVars>>]_vars

=============================================================================
